---------------------------- MODULE Spec2Model ----------------------------
(***************************************************************************)
(* Model of the analytics engine of print-portfolio-analytics:            *)
(*   src/utils/prioritization.py  priority score, capacity allocation     *)
(*   src/predictive_models.py     Monte Carlo forecast, initiative risk   *)
(*                                                                         *)
(* Real numbers are exact rationals <<numerator, denominator>> with a     *)
(* positive denominator, kept in lowest terms.  Story points of the       *)
(* allocation walk are kept in units of 1/Scale point, so that the mean   *)
(* of the last one, two or three velocities is an integer.                *)
(***************************************************************************)
EXTENDS Integers, Sequences, FiniteSets, TLC

VARIABLES
    \* simulate_capacity_allocation (prioritization.py:268-339)
    pc,                    \* position of the call: "idle", "loop", "break", "done"
    pending_initiatives,   \* the filtered, scored, sorted rows the loop walks
    idx,                   \* position of the loop in pending_initiatives
    available_capacity,    \* in 1/Scale points
    capacity_used,         \* in 1/Scale points
    allocated,             \* the list of allocation entries built so far
    first_unfit,           \* history: rank of the first row that took the else branch (0: none)
    plan,                  \* the returned dict
    \* calculate_initiative_risk_score (predictive_models.py:65-192)
    risk_in,               \* the arguments of the last call
    risk_out,              \* its result
    \* predict_sprint_completion_probability (predictive_models.py:12-62)
    np_random,             \* state of numpy's process-wide generator
    np_seed,               \* history: the seed last given to np.random.seed (-1: never seeded)
    private_source,        \* history: per thread, the generator state had only that thread drawn
    mc_calls,              \* per thread, the call it made and what the call returned
    \* calculate_priority_score, pd.cut tier, categorize_quadrant on one row
    score_in,              \* the initiative row given
    score_out,             \* the row with its derived columns
    \* forecast_velocity_next_n_sprints (predictive_models.py:251-324)
    forecast_in,           \* the arguments of the call
    forecast_out,          \* the returned dict
    \* calculate_sprint_health_score (metrics.py:12-62)
    health_in,             \* the arguments of the call
    health_out,            \* the returned dict
    \* the DataFrame functions, on objects the caller and the engine may share
    heap,                  \* object id -> DataFrame (a sequence of rows)
    given,                 \* history: the caller's two DataFrames as they were given
    engine_call,           \* which function was called ("none": not yet)
    engine_out             \* what it returned

vars == <<pc, pending_initiatives, idx, available_capacity, capacity_used, allocated,
          first_unfit, plan, risk_in, risk_out, np_random, np_seed, private_source, mc_calls,
          score_in, score_out, forecast_in, forecast_out, health_in, health_out,
          heap, given, engine_call, engine_out>>

allocVars == <<pc, pending_initiatives, idx, available_capacity, capacity_used, allocated,
               first_unfit, plan>>
riskVars == <<risk_in, risk_out>>
mcVars == <<np_random, np_seed, private_source, mc_calls>>
scoreVars == <<score_in, score_out>>
forecastVars == <<forecast_in, forecast_out>>
healthVars == <<health_in, health_out>>
engineVars == <<heap, given, engine_call, engine_out>>
restVars == <<scoreVars, forecastVars, healthVars, engineVars>>

----------------------------------------------------------------------------
(* Bounds of the model *)

MaxInits == 3          \* initiatives in a portfolio
MaxHist == 4           \* sprints in a velocity history
MaxFuture == 2         \* future_sprints
MaxSims == 2           \* n_simulations
NumThreads == 2        \* threads calling the engine
MaxForecastHist == 6   \* sprints in the history given to the forecaster

----------------------------------------------------------------------------
(* Exact rational arithmetic *)

RECURSIVE GCD(_, _)
GCD(a, b) == IF b = 0 THEN a ELSE GCD(b, a % b)

Abs(x) == IF x < 0 THEN -x ELSE x

Rat(n, d) ==
    LET g == GCD(Abs(n), Abs(d))
        s == IF d < 0 THEN -1 ELSE 1
    IN  <<(s * n) \div g, (s * d) \div g>>

RatLT(a, b) == a[1] * b[2] < b[1] * a[2]
RatLE(a, b) == a[1] * b[2] <= b[1] * a[2]
RatMin(a, b) == IF RatLE(a, b) THEN a ELSE b
RatMul(a, b) == Rat(a[1] * b[1], a[2] * b[2])
RatAdd(a, b) ==
    LET l == (a[2] \div GCD(a[2], b[2])) * b[2]
    IN  Rat(a[1] * (l \div a[2]) + b[1] * (l \div b[2]), l)

RECURSIVE SumSeq(_)
SumSeq(s) == IF s = <<>> THEN 0 ELSE Head(s) + SumSeq(Tail(s))

\* dict.get / Series.get: the value under key, or the default when the key is absent
Get(row, key, default) == IF key \in DOMAIN row THEN row[key] ELSE default

----------------------------------------------------------------------------
(* prioritization.py: priority score *)

\* weights in tenths
STRATEGIC_WEIGHTS ==
    [c \in {"Revenue Growth", "Customer Experience", "Cost Reduction",
            "Process Improvement", "Technical Excellence"} |->
        CASE c = "Revenue Growth" -> 15
          [] c = "Customer Experience" -> 13
          [] c = "Cost Reduction" -> 12
          [] c = "Process Improvement" -> 10
          [] c = "Technical Excellence" -> 11]

ROI_MULTIPLIERS ==
    [r \in {"High", "Medium", "Low"} |->
        CASE r = "High" -> 13 [] r = "Medium" -> 10 [] r = "Low" -> 7]

calculate_priority_score_mutant(initiative) ==
    LET impact == initiative["impact_score"]
        effort == initiative["effort_score"]
        strategic_category == Get(initiative, "strategic_category", "Process Improvement")
        strategic_multiplier == Get(STRATEGIC_WEIGHTS, strategic_category, 10)
    IN  IF effort = 0 THEN Rat(0, 1)
        ELSE Rat(impact * strategic_multiplier, effort * 10)
calculate_priority_score(initiative) ==
    LET impact == initiative["impact_score"]
        effort == initiative["effort_score"]
        strategic_category == Get(initiative, "strategic_category", "Process Improvement")
        strategic_multiplier == Get(STRATEGIC_WEIGHTS, strategic_category, 10)
        roi_estimate == Get(initiative, "roi_estimate", "Medium")
        roi_multiplier == Get(ROI_MULTIPLIERS, roi_estimate, 10)
    IN  IF effort = 0 THEN Rat(0, 1)
        ELSE Rat(impact * strategic_multiplier * roi_multiplier, effort * 100)

----------------------------------------------------------------------------
(* predictive_models.py: predict_sprint_completion_probability *)
(* numpy's process-wide generator is a deterministic stream: a state, a step   *)
(* function, and a standard normal deviate read off each state.               *)

Threads == 1..NumThreads
GeneratorStates == 0..3

\* np.random.seed(seed)
SeedState(seed) == (3 * seed + 5) % 4

NextState(state) == (5 * state + 3) % 4

\* the standard normal deviate the generator gives in a state
StdNormal(state) == (state % 5) - 2

\* the state after n draws
RECURSIVE Advance(_, _)
Advance(state, n) == IF n = 0 THEN state ELSE Advance(NextState(state), n - 1)

RECURSIVE SumSquares(_)
SumSquares(s) == IF s = <<>> THEN 0 ELSE Head(s) * Head(s) + SumSquares(Tail(s))

\* integer square root, rounded up: 0 only for 0
ISqrt(v) == CHOOSE r \in 0..v : r * r >= v /\ (r = 0 \/ (r - 1) * (r - 1) < v)

\* np.mean(historical_velocities)
MeanVelocity(h) == Rat(SumSeq(h), Len(h))

\* np.std(historical_velocities), the population deviation, as a rational:
\* sqrt(n * sum(x^2) - sum(x)^2) / n with the root taken in the integers
StdVelocity(h) == Rat(ISqrt(Len(h) * SumSquares(h) - SumSeq(h) * SumSeq(h)), Len(h))

\* np.random.normal(mean, std, n) from a generator state: mean + std * z per draw
RECURSIVE NormalDraws(_, _, _, _)
NormalDraws(mean, std, n, state) ==
    IF n = 0 THEN <<>>
    ELSE <<RatAdd(mean, RatMul(std, Rat(StdNormal(NextState(state)), 1)))>>
            \o NormalDraws(mean, std, n - 1, NextState(state))

\* np.maximum(simulated_velocities, 0), element by element
ClipMutant(v) == v
Clip(v) == IF RatLT(v, Rat(0, 1)) THEN Rat(0, 1) ELSE v

\* np.sum(simulated_velocities >= committed_points)
SuccessfulCompletionsMutant(sample, committed_points) ==
    Cardinality({i \in 1..Len(sample) : RatLE(sample[i], Rat(committed_points, 1))})
SuccessfulCompletions(sample, committed_points) ==
    Cardinality({i \in 1..Len(sample) : RatLE(Rat(committed_points, 1), sample[i])})

\* the sample in non-decreasing order
SortedSample(sample) ==
    LET n == Len(sample)
        p == CHOOSE q \in [1..n -> 1..n] :
                /\ \A i, j \in 1..n : i # j => q[i] # q[j]
                /\ \A i, j \in 1..n : i < j => RatLE(sample[q[i]], sample[q[j]])
    IN  [i \in 1..n |-> sample[p[i]]]

\* np.percentile(sample, q): linear interpolation between the two nearest ranks
Percentile(sample, q) ==
    LET sorted == SortedSample(sample)
        n == Len(sample)
        lo == ((n - 1) * q) \div 100
        frac == Rat(((n - 1) * q) % 100, 100)
    IN  IF lo + 2 > n THEN sorted[lo + 1]
        ELSE RatAdd(sorted[lo + 1],
                    RatMul(frac, RatAdd(sorted[lo + 2], RatMul(Rat(-1, 1), sorted[lo + 1]))))

\* line 24: too little history to fit a distribution
InsufficientHistoryMutant(historical_velocities) == Len(historical_velocities) < 1
InsufficientHistory(historical_velocities) == Len(historical_velocities) < 2

\* the dict the call returns when the generator is in the given state
predict_sprint_completion_probability(committed_points, historical_velocities, n_simulations, state) ==
    IF InsufficientHistory(historical_velocities)
    THEN [probability |-> Rat(1, 2),
          expected_velocity |-> Rat(committed_points, 1),
          confidence_interval_10 |-> Rat(committed_points, 1),
          confidence_interval_90 |-> Rat(committed_points, 1),
          simulated_velocities |-> <<>>]
    ELSE LET mean_velocity == MeanVelocity(historical_velocities)
             std_velocity == StdVelocity(historical_velocities)
             drawn == NormalDraws(mean_velocity, std_velocity, n_simulations, state)
             simulated_velocities == [i \in 1..Len(drawn) |-> Clip(drawn[i])]
             successful_completions ==
                 SuccessfulCompletions(simulated_velocities, committed_points)
         IN  [probability |-> Rat(successful_completions, n_simulations),
              expected_velocity |-> mean_velocity,
              median_velocity |-> Percentile(simulated_velocities, 50),
              confidence_interval_10 |-> Percentile(simulated_velocities, 10),
              confidence_interval_90 |-> Percentile(simulated_velocities, 90),
              simulated_velocities |-> simulated_velocities,
              committed_points |-> committed_points]

\* the generator state the call leaves behind
StateAfterCall(historical_velocities, n_simulations, state) ==
    IF InsufficientHistory(historical_velocities) THEN state ELSE Advance(state, n_simulations)

NoCall == [made |-> FALSE]

\* the inputs of the model
Seeds == {42}
CommittedPoints == {5, 10}
McHistories == {<<>>, <<10>>, <<0, 10>>, <<10, 10>>}
Simulations == {MaxSims}

\* np.random.seed(seed): generate_data.py:24 at import, or any caller
Seed(seed) ==
    /\ np_random' = SeedState(seed)
    /\ np_seed' = seed
    /\ private_source' = [t \in Threads |-> SeedState(seed)]
    /\ UNCHANGED <<mc_calls, allocVars, riskVars, restVars>>

\* a thread calls the function; the draw at line 38 is one atomic use of the generator
Predict(t, committed_points, historical_velocities, n_simulations) ==
    /\ ~mc_calls[t].made
    /\ mc_calls' = [mc_calls EXCEPT ![t] =
          [made |-> TRUE,
           seed |-> np_seed,
           state |-> np_random,
           committed_points |-> committed_points,
           historical_velocities |-> historical_velocities,
           n_simulations |-> n_simulations,
           result |-> predict_sprint_completion_probability(
                          committed_points, historical_velocities, n_simulations, np_random),
           alone |-> predict_sprint_completion_probability(
                          committed_points, historical_velocities, n_simulations,
                          private_source[t])]]
    /\ np_random' = StateAfterCall(historical_velocities, n_simulations, np_random)
    /\ private_source' = [private_source EXCEPT ![t] =
          StateAfterCall(historical_velocities, n_simulations, private_source[t])]
    /\ UNCHANGED <<np_seed, allocVars, riskVars, restVars>>

SeedAny == \E seed \in Seeds : Seed(seed)

PredictAny ==
    \E t \in Threads, committed_points \in CommittedPoints,
       historical_velocities \in McHistories, n_simulations \in Simulations :
        Predict(t, committed_points, historical_velocities, n_simulations)

----------------------------------------------------------------------------
(* prioritization.py: simulate_capacity_allocation *)

TailWindow == 3
Scale == 2 * TailWindow    \* a multiple of every possible length of tail(3)

\* sprints_df['velocity'].tail(3)
LastSprints(velocities) ==
    LET n == Len(velocities)
    IN  IF n <= TailWindow THEN velocities ELSE SubSeq(velocities, n - TailWindow + 1, n)

\* avg_velocity * future_sprints, in 1/Scale points
AvailableCapacity(velocities, future_sprints) ==
    LET recent == LastSprints(velocities)
    IN  (Scale \div Len(recent)) * SumSeq(recent) * future_sprints

IsPending(initiative) == initiative["status"] \in {"Active", "Backlog"}

RemainingPoints(initiative) ==
    Scale * (initiative["total_story_points"] - initiative["completed_story_points"])

\* the columns of a row of pending_initiatives that the loop reads
PendingRow(initiative) ==
    [initiative_id |-> initiative["initiative_id"],
     priority_score |-> calculate_priority_score(initiative),
     remaining_points |-> RemainingPoints(initiative)]

\* the rows that pass the status filter, in the order of the input
RECURSIVE FilterPending(_)
FilterPending(initiatives_df) ==
    IF initiatives_df = <<>> THEN <<>>
    ELSE IF IsPending(Head(initiatives_df))
         THEN <<PendingRow(Head(initiatives_df))>> \o FilterPending(Tail(initiatives_df))
         ELSE FilterPending(Tail(initiatives_df))

\* sort_values('priority_score', ascending=False): every order of the rows that is
\* non-increasing in priority_score (the sort is not stable, ties land in any order)
SortedByPriority(rows) ==
    LET n == Len(rows)
        perms == {p \in [1..n -> 1..n] : \A i, j \in 1..n : i # j => p[i] # p[j]}
    IN  {[i \in 1..n |-> rows[p[i]]] : p \in
            {q \in perms : \A i \in 1..n, j \in 1..n :
                i < j => RatLE(rows[q[j]].priority_score, rows[q[i]].priority_score)}}

FitsMutant(used, remaining, available) == TRUE
Fits(used, remaining, available) == used + remaining <= available

PointsAvailableMutant(used, available) == available
PointsAvailable(used, available) == available - used

AllocationEntry(row, points, fits) ==
    [initiative_id |-> row.initiative_id,
     points_allocated |-> points,
     priority_score |-> row.priority_score,
     fits_in_capacity |-> fits]

CapacityUtilization(used, available) ==
    IF available > 0 THEN Rat(used * 100, available) ELSE Rat(0, 1)

AllocationPlan(available, used, entries) ==
    [available_capacity |-> available,
     capacity_used |-> used,
     capacity_utilization |-> CapacityUtilization(used, available),
     allocated_initiatives |-> entries,
     initiatives_fully_allocated |->
        Cardinality({i \in 1..Len(entries) : entries[i].fits_in_capacity})]

NoPlan == [available_capacity |-> 0, capacity_used |-> 0, capacity_utilization |-> <<0, 1>>,
           allocated_initiatives |-> <<>>, initiatives_fully_allocated |-> 0]

\* the inputs of the model
AllocStatuses == {"Active", "Completed"}
AllocImpacts == {3, 9}
AllocTotals == {10}
AllocCompleted == {0, 10, 15}
VelocityValues == {0, 10}

Portfolios ==
    UNION {[1..n -> [status : AllocStatuses, impact_score : AllocImpacts,
                     total_story_points : AllocTotals,
                     completed_story_points : AllocCompleted]] : n \in 0..MaxInits}

InitiativeRow(i, fields) ==
    [initiative_id |-> i,
     status |-> fields.status,
     impact_score |-> fields.impact_score,
     effort_score |-> 3,
     strategic_category |-> "Revenue Growth",
     roi_estimate |-> "Medium",
     total_story_points |-> fields.total_story_points,
     completed_story_points |-> fields.completed_story_points]

Histories == UNION {[1..n -> VelocityValues] : n \in 1..MaxHist}

\* lines 280-305: capacity, filter, score, sort, remaining effort
AllocStart(initiatives_df, velocities, future_sprints) ==
    /\ pc = "idle"
    /\ available_capacity' = AvailableCapacity(velocities, future_sprints)
    /\ pending_initiatives' \in SortedByPriority(FilterPending(initiatives_df))
    /\ allocated' = <<>>
    /\ capacity_used' = 0
    /\ idx' = 1
    /\ first_unfit' = 0
    /\ pc' = "loop"
    /\ UNCHANGED <<plan, riskVars, mcVars, restVars>>

\* lines 307-331: one iteration of the loop
AllocStep ==
    /\ pc = "loop"
    /\ idx <= Len(pending_initiatives)
    /\ LET initiative == pending_initiatives[idx]
           remaining == initiative.remaining_points
       IN  IF Fits(capacity_used, remaining, available_capacity)
           THEN /\ allocated' = Append(allocated, AllocationEntry(initiative, remaining, TRUE))
                /\ capacity_used' = capacity_used + remaining
                /\ pc' = "loop"
                /\ UNCHANGED first_unfit
           ELSE LET points_available == PointsAvailable(capacity_used, available_capacity)
                IN  /\ first_unfit' = IF first_unfit = 0 THEN idx ELSE first_unfit
                    /\ IF points_available > 0
                       THEN /\ allocated' = Append(allocated,
                                   AllocationEntry(initiative, points_available, FALSE))
                            /\ capacity_used' = available_capacity
                            /\ pc' = "break"
                       ELSE /\ pc' = "loop"
                            /\ UNCHANGED <<allocated, capacity_used>>
    /\ idx' = idx + 1
    /\ UNCHANGED <<pending_initiatives, available_capacity, plan, riskVars, mcVars, restVars>>

\* lines 333-339: the loop has ended or was left by break
AllocReturn ==
    /\ \/ pc = "break"
       \/ pc = "loop" /\ idx > Len(pending_initiatives)
    /\ plan' = AllocationPlan(available_capacity, capacity_used, allocated)
    /\ pc' = "done"
    /\ UNCHANGED <<pending_initiatives, idx, available_capacity, capacity_used, allocated,
                   first_unfit, riskVars, mcVars, restVars>>

\* one sprint history and future_sprints for each budget they can give: the call keeps
\* nothing of the two but available_capacity
Budgets ==
    LET pairs == Histories \X (0..MaxFuture)
        capacities == {AvailableCapacity(x[1], x[2]) : x \in pairs}
    IN  {CHOOSE x \in pairs : AvailableCapacity(x[1], x[2]) = c : c \in capacities}

AllocStartAny ==
    /\ pc = "idle"
    /\ \E p \in Portfolios, budget \in Budgets :
        AllocStart([i \in DOMAIN p |-> InitiativeRow(i, p[i])], budget[1], budget[2])

----------------------------------------------------------------------------
(* predictive_models.py: calculate_initiative_risk_score *)
(* team_utilization is in hundredths; velocities and points are integers *)

IsTerminalMutant(status) == status = "Completed"
IsTerminal(status) == status \in {"Completed", "Deprioritized"}

Max(a, b) == IF a >= b THEN a ELSE b

\* FACTOR 1, lines 109-115
CapacityRiskMutant(remaining_points, capacity_available) ==
    IF capacity_available > 0
    THEN Rat(remaining_points * 10, capacity_available * 8)
    ELSE Rat(1, 1)
CapacityRisk(remaining_points, capacity_available) ==
    IF capacity_available > 0
    THEN RatMin(Rat(1, 1), Rat(remaining_points * 10, capacity_available * 8))
    ELSE Rat(1, 1)

\* FACTOR 2, lines 117-123
VolatilityRiskMutant(velocity_std, avg_velocity) ==
    IF avg_velocity > 0
    THEN RatMin(Rat(1, 1), Rat(velocity_std * 100, avg_velocity * 15))
    ELSE Rat(1, 1)
VolatilityRisk(velocity_std, avg_velocity) ==
    IF avg_velocity > 0
    THEN RatMin(Rat(1, 1), Rat(velocity_std * 100, avg_velocity * 15))
    ELSE Rat(1, 2)

\* FACTOR 3, lines 125-133
UtilizationRisk(team_utilization) ==
    IF team_utilization > 105 THEN Rat(9, 10)
    ELSE IF team_utilization > 95 THEN Rat(5, 10)
    ELSE IF team_utilization > 70 THEN Rat(2, 10)
    ELSE Rat(4, 10)

\* FACTOR 4, lines 135-155
ProgressRiskMutant(status, total_points, completed_points, sprints_available) ==
    IF total_points > 0
    THEN LET completion_pct == Rat(completed_points, total_points)
         IN  IF sprints_available < 3 /\ RatLT(completion_pct, Rat(1, 2)) THEN Rat(8, 10)
             ELSE IF RatLT(completion_pct, Rat(3, 10)) THEN Rat(6, 10)
             ELSE Rat(2, 10)
    ELSE Rat(1, 2)
ProgressRisk(status, total_points, completed_points, sprints_available) ==
    IF total_points > 0
    THEN LET completion_pct == Rat(completed_points, total_points)
         IN  IF status = "Active"
             THEN IF sprints_available < 3 /\ RatLT(completion_pct, Rat(1, 2)) THEN Rat(8, 10)
                  ELSE IF RatLT(completion_pct, Rat(3, 10)) THEN Rat(6, 10)
                  ELSE Rat(2, 10)
             ELSE Rat(1, 10)
    ELSE Rat(1, 2)

\* lines 157-163
CompositeRiskMutant(capacity_risk, volatility_risk, utilization_risk, progress_risk) ==
    RatAdd(RatMul(capacity_risk, Rat(35, 100)), RatMul(volatility_risk, Rat(25, 100)))
CompositeRisk(capacity_risk, volatility_risk, utilization_risk, progress_risk) ==
    RatAdd(RatAdd(RatMul(capacity_risk, Rat(35, 100)), RatMul(volatility_risk, Rat(25, 100))),
           RatAdd(RatMul(utilization_risk, Rat(25, 100)), RatMul(progress_risk, Rat(15, 100))))

\* lines 165-177
RiskLevelMutant(risk_score) ==
    IF RatLT(risk_score, Rat(3, 10)) THEN "Low"
    ELSE IF RatLT(risk_score, Rat(7, 10)) THEN "Medium"
    ELSE "High"
RiskLevel(risk_score) ==
    IF RatLT(risk_score, Rat(3, 10)) THEN "Low"
    ELSE IF RatLT(risk_score, Rat(6, 10)) THEN "Medium"
    ELSE "High"

RiskRecommendationMutant(risk_level, capacity_risk) ==
    IF risk_level = "Low" THEN "No action needed - on track for delivery"
    ELSE IF risk_level = "Medium"
    THEN "Monitor closely - may need resource adjustment or scope review"
    ELSE "High risk - consider descoping, extending timeline, or adding resources"
RiskRecommendation(risk_level, capacity_risk) ==
    IF risk_level = "Low" THEN "No action needed - on track for delivery"
    ELSE IF risk_level = "Medium"
    THEN "Monitor closely - may need resource adjustment or scope review"
    ELSE IF RatLT(Rat(7, 10), capacity_risk)
    THEN "High risk - consider descoping, extending timeline, or adding resources"
    ELSE "High risk - immediate intervention needed"

calculate_initiative_risk_score(initiative, current_sprint, avg_velocity, velocity_std, team_utilization) ==
    LET total_points == Get(initiative, "total_story_points", 0)
        completed_points == Get(initiative, "completed_story_points", 0)
        target_sprint == Get(initiative, "target_sprint", current_sprint + 10)
        status == Get(initiative, "status", "Backlog")
        remaining_points == Max(0, total_points - completed_points)
        sprints_available == Max(1, target_sprint - current_sprint)
        capacity_available == avg_velocity * sprints_available
        capacity_risk == CapacityRisk(remaining_points, capacity_available)
        volatility_risk == VolatilityRisk(velocity_std, avg_velocity)
        utilization_risk == UtilizationRisk(team_utilization)
        progress_risk == ProgressRisk(status, total_points, completed_points, sprints_available)
        risk_score == CompositeRisk(capacity_risk, volatility_risk, utilization_risk,
                                    progress_risk)
        risk_level == RiskLevel(risk_score)
    IN  IF IsTerminal(status)
        THEN [risk_score |-> Rat(0, 1),
              risk_level |-> "None",
              factors |-> <<>>,
              recommendation |-> "No action needed"]
        ELSE [risk_score |-> risk_score,
              risk_level |-> risk_level,
              factors |-> [capacity_risk |-> capacity_risk,
                           volatility_risk |-> volatility_risk,
                           utilization_risk |-> utilization_risk,
                           progress_risk |-> progress_risk],
              remaining_points |-> remaining_points,
              sprints_available |-> sprints_available,
              capacity_available |-> capacity_available,
              recommendation |-> RiskRecommendation(risk_level, capacity_risk)]

\* the inputs of the model
RiskFields == {"total_story_points", "completed_story_points", "target_sprint", "status"}
Statuses == {"Backlog", "Active", "Completed", "Deprioritized"}
RiskTotals == {0, 50}
RiskCompleted == {0, 10, 40, 60}
TargetSprints == {2, 5, 8}
CurrentSprints == {1, 4}
AvgVelocities == {-10, 0, 10, 40}
VelocityStds == {0, 4, 10}
Utilizations == {60, 70, 71, 90, 95, 96, 105, 106, 120}

RiskInitiative(status, total, completed, target) ==
    [f \in {"impact_score", "effort_score"} \cup RiskFields |->
        CASE f = "impact_score" -> 9
          [] f = "effort_score" -> 3
          [] f = "status" -> status
          [] f = "total_story_points" -> total
          [] f = "completed_story_points" -> completed
          [] f = "target_sprint" -> target]

\* the record without one of its fields
Without(row, field) == [f \in DOMAIN row \ {field} |-> row[f]]

ScoreInitiativeRisk(initiative, current_sprint, avg_velocity, velocity_std, team_utilization) ==
    /\ ~risk_in.called
    /\ risk_in' = [called |-> TRUE,
                   initiative |-> initiative,
                   current_sprint |-> current_sprint,
                   avg_velocity |-> avg_velocity,
                   velocity_std |-> velocity_std,
                   team_utilization |-> team_utilization]
    /\ risk_out' = calculate_initiative_risk_score(initiative, current_sprint, avg_velocity,
                                                   velocity_std, team_utilization)
    /\ UNCHANGED <<allocVars, mcVars, restVars>>

ScoreAnyInitiative ==
    /\ ~risk_in.called
    /\ \E status \in Statuses, total \in RiskTotals, completed \in RiskCompleted,
          target \in TargetSprints, missing \in {"none"} \cup RiskFields,
          current_sprint \in CurrentSprints, avg_velocity \in AvgVelocities,
          velocity_std \in VelocityStds, team_utilization \in Utilizations :
            ScoreInitiativeRisk(Without(RiskInitiative(status, total, completed, target), missing),
                                current_sprint, avg_velocity, velocity_std, team_utilization)

----------------------------------------------------------------------------
(* predictive_models.py: forecast_velocity_next_n_sprints *)
(* sprints_df is a sequence of rows [sprint_number, velocity] *)

RatMax(a, b) == IF RatLE(a, b) THEN b ELSE a
RatSub(a, b) == RatAdd(a, RatMul(Rat(-1, 1), b))

Column(df, name) == [i \in 1..Len(df) |-> df[i][name]]

\* values[-5:]
TrendWindow == 5
LastFive(values) ==
    LET n == Len(values)
    IN  IF n <= TrendWindow THEN values ELSE SubSeq(values, n - TrendWindow + 1, n)

RECURSIVE SumProducts(_, _)
SumProducts(xs, ys) ==
    IF xs = <<>> THEN 0 ELSE Head(xs) * Head(ys) + SumProducts(Tail(xs), Tail(ys))

\* n * sum(a*b) - sum(a) * sum(b): n^2 times the covariance of two columns
CoMoment(xs, ys) == Len(xs) * SumProducts(xs, ys) - SumSeq(xs) * SumSeq(ys)

\* stats.linregress(x, y): least-squares slope and intercept, and whether the
\* correlation r has |r| > 0.5 (r is 0 when either column is constant)
RegressionSlope(xs, ys) == Rat(CoMoment(xs, ys), CoMoment(xs, xs))
RegressionIntercept(xs, ys) ==
    RatSub(Rat(SumSeq(ys), Len(ys)),
           RatMul(RegressionSlope(xs, ys), Rat(SumSeq(xs), Len(xs))))
StrongCorrelation(xs, ys) ==
    /\ CoMoment(xs, xs) > 0
    /\ CoMoment(ys, ys) > 0
    /\ 4 * CoMoment(xs, ys) * CoMoment(xs, ys) > CoMoment(xs, xs) * CoMoment(ys, ys)

\* line 269
FallbackAverageMutant(velocities) ==
    IF Len(velocities) > 0 THEN MeanVelocity(velocities) ELSE Rat(0, 1)
FallbackAverage(velocities) ==
    IF Len(velocities) > 0 THEN MeanVelocity(velocities) ELSE Rat(40, 1)

\* line 310
ClampForecastMutant(predicted_velocity) == RatMax(Rat(20, 1), predicted_velocity)
ClampForecast(predicted_velocity) == RatMax(Rat(20, 1), RatMin(Rat(60, 1), predicted_velocity))

\* lines 298-310: the forecast for the i-th future sprint
PredictedVelocity(slope, intercept, strong, moving_avg, last_sprint, i) ==
    LET future_sprint == last_sprint + i
        trend_forecast == RatAdd(RatMul(slope, Rat(future_sprint, 1)), intercept)
        blended == IF strong
                   THEN RatAdd(RatMul(Rat(7, 10), trend_forecast), RatMul(Rat(3, 10), moving_avg))
                   ELSE RatAdd(RatMul(Rat(3, 10), trend_forecast), RatMul(Rat(7, 10), moving_avg))
    IN  ClampForecast(blended)

\* lines 315-316
LowerBound(predicted_velocity, std_velocity) ==
    RatMax(Rat(15, 1), RatSub(predicted_velocity, RatMul(Rat(3, 2), std_velocity)))
UpperBoundMutant(predicted_velocity, std_velocity) ==
    RatMin(Rat(55, 1), RatAdd(predicted_velocity, RatMul(Rat(3, 2), std_velocity)))
UpperBound(predicted_velocity, std_velocity) ==
    RatMin(Rat(70, 1), RatAdd(predicted_velocity, RatMul(Rat(3, 2), std_velocity)))

forecast_velocity_next_n_sprints(sprints_df, n_sprints) ==
    LET velocities == Column(sprints_df, "velocity")
        sprint_numbers == Column(sprints_df, "sprint_number")
    IN  IF Len(velocities) < 3
        THEN LET avg == FallbackAverage(velocities)
             IN  [forecast |-> [i \in 1..n_sprints |-> avg],
                  lower_bound |-> [i \in 1..n_sprints |-> RatMul(avg, Rat(8, 10))],
                  upper_bound |-> [i \in 1..n_sprints |-> RatMul(avg, Rat(12, 10))]]
        ELSE LET recent_velocities == LastFive(velocities)
                 recent_sprint_nums == LastFive(sprint_numbers)
                 slope == RegressionSlope(recent_sprint_nums, recent_velocities)
                 intercept == RegressionIntercept(recent_sprint_nums, recent_velocities)
                 strong == StrongCorrelation(recent_sprint_nums, recent_velocities)
                 moving_avg == MeanVelocity(recent_velocities)
                 std_velocity == StdVelocity(recent_velocities)
                 last_sprint == sprint_numbers[Len(sprint_numbers)]
                 forecast == [i \in 1..n_sprints |->
                                PredictedVelocity(slope, intercept, strong, moving_avg,
                                                  last_sprint, i)]
             IN  [forecast |-> forecast,
                  lower_bound |-> [i \in 1..n_sprints |-> LowerBound(forecast[i], std_velocity)],
                  upper_bound |-> [i \in 1..n_sprints |-> UpperBound(forecast[i], std_velocity)],
                  avg_velocity |-> moving_avg,
                  trend_slope |-> slope]

\* the inputs of the model: sprints numbered 1, 2, ... with one of three velocities
ForecastVelocities == {10, 40, 80}
ForecastHistories ==
    UNION {[1..n -> ForecastVelocities] : n \in 0..MaxForecastHist}
SprintsFrame(velocities) ==
    [i \in 1..Len(velocities) |-> [sprint_number |-> i, velocity |-> velocities[i]]]

ForecastVelocity(sprints_df, n_sprints) ==
    /\ ~forecast_in.called
    /\ forecast_in' = [called |-> TRUE, sprints_df |-> sprints_df, n_sprints |-> n_sprints]
    /\ forecast_out' = forecast_velocity_next_n_sprints(sprints_df, n_sprints)
    /\ UNCHANGED <<allocVars, riskVars, mcVars, scoreVars, healthVars, engineVars>>

ForecastAny ==
    /\ ~forecast_in.called
    /\ \E velocities \in ForecastHistories, n_sprints \in 0..MaxFuture :
          ForecastVelocity(SprintsFrame(velocities), n_sprints)

----------------------------------------------------------------------------
(* prioritization.py: add_priority_scores, categorize_quadrant *)
(* a DataFrame is a sequence of rows, a row a record from column to value *)

\* df[column] = values: the row with the given columns added or replaced
WithColumns(row, new) ==
    [k \in DOMAIN row \cup DOMAIN new |-> IF k \in DOMAIN new THEN new[k] ELSE row[k]]

\* rank(ascending=False, method='dense'): 1 + the number of distinct higher scores
DenseRank(scores, i) ==
    1 + Cardinality({scores[j] : j \in {k \in 1..Len(scores) : RatLT(scores[i], scores[k])}})

\* pd.cut(bins=[0, 1.5, 2.5, inf], labels=['Low', 'Medium', 'High']): intervals closed
\* on the right and open on the left, a value in none of them is NaN
PriorityTier(score) ==
    CASE RatLT(Rat(0, 1), score) /\ RatLE(score, Rat(3, 2)) -> "Low"
      [] RatLT(Rat(3, 2), score) /\ RatLE(score, Rat(5, 2)) -> "Medium"
      [] RatLT(Rat(5, 2), score) -> "High"
      [] OTHER -> "NaN"

add_priority_scores(initiatives_df) ==
    LET scores == [i \in 1..Len(initiatives_df) |-> calculate_priority_score(initiatives_df[i])]
    IN  [i \in 1..Len(initiatives_df) |->
            WithColumns(initiatives_df[i],
                        [priority_score |-> scores[i],
                         priority_rank |-> DenseRank(scores, i),
                         priority_tier |-> PriorityTier(scores[i])])]

HighImpactMutant(impact) == impact >= 6
HighImpact(impact) == impact > 6

categorize_quadrant(initiative) ==
    LET impact == initiative["impact_score"]
        effort == initiative["effort_score"]
    IN  IF HighImpact(impact) /\ effort <= 5 THEN "Quick Wins"
        ELSE IF HighImpact(impact) /\ effort > 5 THEN "Major Projects"
        ELSE IF ~HighImpact(impact) /\ effort <= 5 THEN "Fill-ins"
        ELSE "Time Sinks"

add_quadrant_classification(initiatives_df) ==
    [i \in 1..Len(initiatives_df) |->
        WithColumns(initiatives_df[i], [quadrant |-> categorize_quadrant(initiatives_df[i])])]

\* the inputs of the model: every score from 0 to 10, every known label, a label that
\* is in neither table, and rows without the two optional columns
ImpactScores == 0..10
EffortScores == 0..10
Categories == DOMAIN STRATEGIC_WEIGHTS \cup {"Sustainability"}
RoiEstimates == DOMAIN ROI_MULTIPLIERS \cup {"Unknown"}
OptionalColumns == SUBSET {"strategic_category", "roi_estimate"}

ScoredInitiative(impact, effort, category, roi, optional) ==
    [k \in {"impact_score", "effort_score"} \cup optional |->
        CASE k = "impact_score" -> impact
          [] k = "effort_score" -> effort
          [] k = "strategic_category" -> category
          [] k = "roi_estimate" -> roi]

ScoredInitiatives ==
    {ScoredInitiative(impact, effort, category, roi, optional) :
        impact \in ImpactScores, effort \in EffortScores, category \in Categories,
        roi \in RoiEstimates, optional \in OptionalColumns}

\* frames for add_priority_scores: rows scoring 0, 1.5 (twice), 2.5 and 5.85
TierRows ==
    {ScoredInitiative(5, 0, "Process Improvement", "Medium", {"strategic_category", "roi_estimate"}),
     ScoredInitiative(3, 2, "Process Improvement", "Medium", {"strategic_category", "roi_estimate"}),
     ScoredInitiative(3, 2, "Sustainability", "Unknown", {"strategic_category", "roi_estimate"}),
     ScoredInitiative(5, 2, "Process Improvement", "Medium", {}),
     ScoredInitiative(9, 3, "Revenue Growth", "High", {"strategic_category", "roi_estimate"})}
TierFrames == UNION {[1..n -> TierRows] : n \in 0..MaxInits}

\* df.apply(calculate_priority_score, axis=1) and df.apply(categorize_quadrant, axis=1)
\* on one row
ScoreRow(initiative) ==
    /\ ~score_in.called
    /\ score_in' = [called |-> TRUE, call |-> "apply", initiative |-> initiative]
    /\ score_out' = [priority_score |-> calculate_priority_score(initiative),
                     quadrant |-> categorize_quadrant(initiative)]
    /\ UNCHANGED <<allocVars, riskVars, mcVars, forecastVars, healthVars, engineVars>>

AddPriorityScores(initiatives_df) ==
    /\ ~score_in.called
    /\ score_in' = [called |-> TRUE, call |-> "add_priority_scores",
                    initiatives_df |-> initiatives_df]
    /\ score_out' = add_priority_scores(initiatives_df)
    /\ UNCHANGED <<allocVars, riskVars, mcVars, forecastVars, healthVars, engineVars>>

ScoreAnyRow ==
    /\ ~score_in.called
    /\ \E initiative \in ScoredInitiatives : ScoreRow(initiative)

AddPriorityScoresAny ==
    /\ ~score_in.called
    /\ \E initiatives_df \in TierFrames : AddPriorityScores(initiatives_df)

----------------------------------------------------------------------------
(* prioritization.py: calculate_portfolio_health_score *)
(* metrics.py: calculate_sprint_health_score *)

\* len(df[df[column] == value])
CountWhere(df, column, value) == Cardinality({i \in 1..Len(df) : df[i][column] = value})

\* count / total_initiatives if total_initiatives > 0 else 0
RatioOf(count, total) == IF total > 0 THEN Rat(count, total) ELSE Rat(0, 1)

calculate_portfolio_health_score(initiatives_df) ==
    LET df == add_quadrant_classification(initiatives_df)
        total_initiatives == Len(df)
        quick_wins_ratio == RatioOf(CountWhere(df, "quadrant", "Quick Wins"), total_initiatives)
        time_sinks_ratio == RatioOf(CountWhere(df, "quadrant", "Time Sinks"), total_initiatives)
        completed_count == CountWhere(df, "status", "Completed")
        active_count == CountWhere(df, "status", "Active")
        deprioritized_count == CountWhere(df, "status", "Deprioritized")
        completion_rate == RatioOf(completed_count, total_initiatives)
        low_deprioritization ==
            IF total_initiatives > 0
            THEN RatMul(RatSub(Rat(1, 1), Rat(deprioritized_count, total_initiatives)), Rat(20, 1))
            ELSE Rat(0, 1)
        weighted == RatAdd(RatAdd(RatMul(quick_wins_ratio, Rat(30, 1)),
                                  RatMul(RatSub(Rat(1, 1), time_sinks_ratio), Rat(20, 1))),
                           RatAdd(RatMul(completion_rate, Rat(30, 1)), low_deprioritization))
    IN  [health_score |-> RatMul(weighted, Rat(100, 1)),
         quick_wins_ratio |-> RatMul(quick_wins_ratio, Rat(100, 1)),
         time_sinks_ratio |-> RatMul(time_sinks_ratio, Rat(100, 1)),
         completion_rate |-> RatMul(completion_rate, Rat(100, 1)),
         active_count |-> active_count,
         completed_count |-> completed_count,
         deprioritized_count |-> deprioritized_count]

\* a / b for b > 0
RatDiv(a, b) == Rat(a[1] * b[2], a[2] * b[1])

\* lines 33-34
VelocityConsistency(velocities) ==
    LET avg_velocity == MeanVelocity(velocities)
        velocity_std == StdVelocity(velocities)
        consistency == IF RatLT(Rat(0, 1), avg_velocity)
                       THEN RatSub(Rat(1, 1), RatMin(RatDiv(velocity_std, avg_velocity), Rat(1, 1)))
                       ELSE Rat(0, 1)
    IN  RatMax(Rat(0, 1), consistency)

calculate_sprint_health_score(sprint_data, sprints_history) ==
    LET velocity_consistency == VelocityConsistency(Column(sprints_history, "velocity"))
        estimation_accuracy == Get(sprint_data, "avg_estimation_accuracy", Rat(85, 100))
        completion_rate == RatMin(Rat(1, 1), sprint_data["completion_rate"])
        total_stories == Get(sprint_data, "stories_count", 1)
        stories_with_blockers == Get(sprint_data, "stories_with_blockers", 0)
        blocker_rate == RatioOf(stories_with_blockers, total_stories)
        composite == RatAdd(RatAdd(RatMul(velocity_consistency, Rat(30, 100)),
                                   RatMul(estimation_accuracy, Rat(25, 100))),
                            RatAdd(RatMul(completion_rate, Rat(25, 100)),
                                   RatMul(RatSub(Rat(1, 1), blocker_rate), Rat(20, 100))))
    IN  [health_score |-> RatMul(composite, Rat(100, 1)),
         velocity_consistency |-> RatMul(velocity_consistency, Rat(100, 1)),
         estimation_accuracy |-> RatMul(estimation_accuracy, Rat(100, 1)),
         completion_rate |-> RatMul(completion_rate, Rat(100, 1)),
         blocker_impact |-> RatMul(RatSub(Rat(1, 1), blocker_rate), Rat(100, 1))]

\* the inputs of the model: portfolios with one initiative per status and quadrant
QuadrantCorners == {<<9, 3>>, <<9, 8>>, <<3, 3>>, <<3, 8>>}
HealthRow(status, corner) ==
    [status |-> status, impact_score |-> corner[1], effort_score |-> corner[2]]
HealthPortfolios ==
    UNION {[1..n -> {HealthRow(status, corner) : status \in Statuses, corner \in QuadrantCorners}]
             : n \in 0..MaxInits}

\* sprint records: rates of 0, 1/2, 1 and 3/2, story counts, and rows without the
\* optional columns
Rates == {Rat(0, 1), Rat(1, 2), Rat(1, 1), Rat(3, 2)}
StoryCounts == {0, 4}
BlockedCounts == {0, 2, 6}
SprintColumns == SUBSET {"avg_estimation_accuracy", "stories_count", "stories_with_blockers"}
SprintRecord(completion_rate, accuracy, stories, blocked, optional) ==
    [k \in {"completion_rate"} \cup optional |->
        CASE k = "completion_rate" -> completion_rate
          [] k = "avg_estimation_accuracy" -> accuracy
          [] k = "stories_count" -> stories
          [] k = "stories_with_blockers" -> blocked]
SprintRecords ==
    {SprintRecord(completion_rate, accuracy, stories, blocked, optional) :
        completion_rate \in Rates, accuracy \in Rates, stories \in StoryCounts,
        blocked \in BlockedCounts, optional \in SprintColumns}
VelocityFrame(velocities) == [i \in 1..Len(velocities) |-> [velocity |-> velocities[i]]]

PortfolioHealth(initiatives_df) ==
    /\ ~health_in.called
    /\ health_in' = [called |-> TRUE, call |-> "portfolio", initiatives_df |-> initiatives_df]
    /\ health_out' = calculate_portfolio_health_score(initiatives_df)
    /\ UNCHANGED <<allocVars, riskVars, mcVars, scoreVars, forecastVars, engineVars>>

SprintHealth(sprint_data, sprints_history) ==
    /\ ~health_in.called
    /\ health_in' = [called |-> TRUE, call |-> "sprint", sprint_data |-> sprint_data,
                     sprints_history |-> sprints_history]
    /\ health_out' = calculate_sprint_health_score(sprint_data, sprints_history)
    /\ UNCHANGED <<allocVars, riskVars, mcVars, scoreVars, forecastVars, engineVars>>

PortfolioHealthAny ==
    /\ ~health_in.called
    /\ \E initiatives_df \in HealthPortfolios : PortfolioHealth(initiatives_df)

SprintHealthAny ==
    /\ ~health_in.called
    /\ \E sprint_data \in SprintRecords, velocities \in Histories :
          SprintHealth(sprint_data, VelocityFrame(velocities))

----------------------------------------------------------------------------
(* The engine called on the caller's DataFrames *)
(* heap maps the name of a DataFrame object to its rows: "initiatives_df" and          *)
(* "sprints_df" are the caller's two objects, "df" is the object the engine works on. *)
(* A column assignment changes the rows of the object it is applied to.               *)

\* initiatives_df.copy(), initiatives_df[mask].copy(): the object the result is bound to
CopyOfMutant(source, fresh) == source
CopyOf(source, fresh) == fresh

\* the heap after the rows of one object are replaced
SetFrame(h, object, rows) == [h EXCEPT ![object] = rows]

\* initiatives_df[initiatives_df['status'].isin(['Active', 'Backlog'])]
RECURSIVE PendingRows(_)
PendingRows(df) ==
    IF df = <<>> THEN <<>>
    ELSE IF IsPending(Head(df)) THEN <<Head(df)>> \o PendingRows(Tail(df))
         ELSE PendingRows(Tail(df))

\* prioritization.py lines 307-331: the allocation loop over the sorted rows
RECURSIVE AllocateMutant(_, _, _, _)
AllocateMutant(rows, used, available, entries) ==
    IF rows = <<>> THEN [capacity_used |-> used, allocated |-> entries]
    ELSE LET initiative == Head(rows)
             remaining == initiative.remaining_points
         IN  IF Fits(used, remaining, available)
             THEN AllocateMutant(Tail(rows), used + remaining, available,
                                 Append(entries, AllocationEntry(initiative, remaining, TRUE)))
             ELSE IF PointsAvailable(used, available) > 0
                  THEN [capacity_used |-> used + remaining,
                        allocated |-> Append(entries,
                            AllocationEntry(initiative, remaining, FALSE))]
                  ELSE AllocateMutant(Tail(rows), used, available, entries)
RECURSIVE Allocate(_, _, _, _)
Allocate(rows, used, available, entries) ==
    IF rows = <<>> THEN [capacity_used |-> used, allocated |-> entries]
    ELSE LET initiative == Head(rows)
             remaining == initiative.remaining_points
         IN  IF Fits(used, remaining, available)
             THEN Allocate(Tail(rows), used + remaining, available,
                           Append(entries, AllocationEntry(initiative, remaining, TRUE)))
             ELSE LET points_available == PointsAvailable(used, available)
                  IN  IF points_available > 0
                      THEN [capacity_used |-> available,
                            allocated |-> Append(entries,
                                AllocationEntry(initiative, points_available, FALSE))]
                      ELSE Allocate(Tail(rows), used, available, entries)

\* a rational that is a whole number, as an integer
Whole(q) == q[1] \div q[2]

\* predictive_models.py lines 227-241: one record of risk_assessments
RiskAssessment(initiative, risk) ==
    [initiative_id |-> initiative["initiative_id"],
     name |-> initiative["name"],
     status |-> initiative["status"],
     risk_score |-> risk.risk_score,
     risk_level |-> risk.risk_level,
     capacity_risk |-> risk.factors.capacity_risk,
     volatility_risk |-> risk.factors.volatility_risk,
     utilization_risk |-> risk.factors.utilization_risk,
     progress_risk |-> risk.factors.progress_risk,
     remaining_points |-> risk.remaining_points,
     sprints_available |-> risk.sprints_available,
     recommendation |-> risk.recommendation]

\* lines 208-241: the records before the sort, in the order of the filtered rows
RiskAssessments(df, current_sprint, sprints_df, team_utilization) ==
    LET recent_velocities == LastFive(Column(sprints_df, "velocity"))
        avg_velocity == Whole(MeanVelocity(recent_velocities))
        velocity_std == Whole(StdVelocity(recent_velocities))
    IN  [i \in 1..Len(df) |->
            RiskAssessment(df[i],
                calculate_initiative_risk_score(df[i], current_sprint, avg_velocity,
                                                velocity_std, team_utilization))]

\* sort_values('risk_score', ascending=False): every order of the rows that is
\* non-increasing in risk_score (the sort is not stable, ties land in any order)
SortedByRisk(rows) ==
    LET n == Len(rows)
        perms == {p \in [1..n -> 1..n] : \A i, j \in 1..n : i # j => p[i] # p[j]}
    IN  {[i \in 1..n |-> rows[p[i]]] : p \in
            {q \in perms : \A i \in 1..n, j \in 1..n :
                i < j => RatLE(rows[q[j]].risk_score, rows[q[i]].risk_score)}}

\* the inputs of the model: initiatives that differ in status, impact and progress,
\* and sprint histories whose mean and deviation are whole numbers
EngineFields ==
    {[status |-> "Active", impact_score |-> 9, completed_story_points |-> 10],
     [status |-> "Active", impact_score |-> 3, completed_story_points |-> 40],
     [status |-> "Backlog", impact_score |-> 9, completed_story_points |-> 10],
     [status |-> "Completed", impact_score |-> 9, completed_story_points |-> 50],
     [status |-> "Deprioritized", impact_score |-> 3, completed_story_points |-> 10]}
EngineRow(i, fields) ==
    [initiative_id |-> i,
     name |-> "initiative",
     status |-> fields.status,
     impact_score |-> fields.impact_score,
     effort_score |-> 3,
     strategic_category |-> "Revenue Growth",
     roi_estimate |-> "Medium",
     total_story_points |-> 50,
     completed_story_points |-> fields.completed_story_points,
     target_sprint |-> 5]
EnginePortfolios ==
    {[i \in DOMAIN p |-> EngineRow(i, p[i])] :
        p \in UNION {[1..n -> EngineFields] : n \in 0..MaxInits}}
EngineHistories == {<<30>>, <<30, 50>>, <<0, 40, 40, 40, 40, 40>>}
TeamUtilization == 85

EngineInit ==
    /\ \E initiatives_df \in EnginePortfolios, velocities \in EngineHistories :
          /\ heap = [initiatives_df |-> initiatives_df,
                     sprints_df |-> SprintsFrame(velocities),
                     df |-> <<>>]
          /\ given = [initiatives_df |-> initiatives_df,
                      sprints_df |-> SprintsFrame(velocities)]
    /\ engine_call = "none"
    /\ engine_out = <<>>

\* prioritization.py lines 73-88
CallAddPriorityScores ==
    /\ engine_call = "none"
    /\ LET df == CopyOf("initiatives_df", "df")
           scored == add_priority_scores(heap["initiatives_df"])
       IN  /\ heap' = SetFrame(heap, df, scored)
           /\ engine_out' = scored
    /\ engine_call' = "add_priority_scores"
    /\ UNCHANGED <<given, allocVars, riskVars, mcVars, scoreVars, forecastVars, healthVars>>

\* prioritization.py lines 130-132
CallAddQuadrantClassification ==
    /\ engine_call = "none"
    /\ LET df == CopyOf("initiatives_df", "df")
           classified == add_quadrant_classification(heap["initiatives_df"])
       IN  /\ heap' = SetFrame(heap, df, classified)
           /\ engine_out' = classified
    /\ engine_call' = "add_quadrant_classification"
    /\ UNCHANGED <<given, allocVars, riskVars, mcVars, scoreVars, forecastVars, healthVars>>

\* prioritization.py lines 231-265
CallPortfolioHealth ==
    /\ engine_call = "none"
    /\ LET df == CopyOf("initiatives_df", "df")
       IN  /\ heap' = SetFrame(heap, df, add_quadrant_classification(heap["initiatives_df"]))
           /\ engine_out' = calculate_portfolio_health_score(heap["initiatives_df"])
    /\ engine_call' = "calculate_portfolio_health_score"
    /\ UNCHANGED <<given, allocVars, riskVars, mcVars, scoreVars, forecastVars, healthVars>>

\* prioritization.py lines 280-339
CallSimulateCapacityAllocation(future_sprints) ==
    /\ engine_call = "none"
    /\ LET available == AvailableCapacity(Column(heap["sprints_df"], "velocity"), future_sprints)
           pending == CopyOf("initiatives_df", "df")
       IN  \E sorted \in SortedByPriority(FilterPending(heap["initiatives_df"])) :
              LET walk == Allocate(sorted, 0, available, <<>>)
              IN  /\ heap' = SetFrame(heap, pending, sorted)
                  /\ engine_out' = AllocationPlan(available, walk.capacity_used, walk.allocated)
    /\ engine_call' = "simulate_capacity_allocation"
    /\ UNCHANGED <<given, allocVars, riskVars, mcVars, scoreVars, forecastVars, healthVars>>

\* predictive_models.py lines 208-248: pd.DataFrame([]) has no columns, so sorting it by
\* 'risk_score' raises KeyError
CallAssessAllInitiativesRisk(current_sprint) ==
    /\ engine_call = "none"
    /\ LET df == CopyOf("initiatives_df", "df")
           filtered == PendingRows(heap["initiatives_df"])
           risk_assessments == RiskAssessments(filtered, current_sprint, heap["sprints_df"],
                                               TeamUtilization)
       IN  /\ heap' = SetFrame(heap, df, filtered)
           /\ IF risk_assessments = <<>>
              THEN engine_out' = [raised |-> "KeyError"]
              ELSE \E risk_df \in SortedByRisk(risk_assessments) :
                      engine_out' = [raised |-> "none", risk_df |-> risk_df]
    /\ engine_call' = "assess_all_initiatives_risk"
    /\ UNCHANGED <<given, allocVars, riskVars, mcVars, scoreVars, forecastVars, healthVars>>

CallSimulateAny ==
    /\ engine_call = "none"
    /\ \E future_sprints \in 0..MaxFuture : CallSimulateCapacityAllocation(future_sprints)

CallAssessAny ==
    /\ engine_call = "none"
    /\ \E current_sprint \in CurrentSprints : CallAssessAllInitiativesRisk(current_sprint)

----------------------------------------------------------------------------
(* The zero-denominator guards of the risk score and of the priority score, one call *)
(* of either per behaviour *)

GuardedRiskScore ==
    /\ ~score_in.called
    /\ ScoreAnyInitiative

GuardedPriorityScore ==
    /\ ~risk_in.called
    /\ ScoreAnyRow

----------------------------------------------------------------------------
(* prioritization.py: generate_portfolio_recommendations *)
(* predictive_models.py: generate_predictive_recommendations *)

\* recommendations.append(record) under `if condition:`
Emit(condition, record) == IF condition THEN <<record>> ELSE <<>>

\* df[df[column] == value]
RECURSIVE RowsWhere(_, _, _)
RowsWhere(df, column, value) ==
    IF df = <<>> THEN <<>>
    ELSE IF Head(df)[column] = value THEN <<Head(df)>> \o RowsWhere(Tail(df), column, value)
         ELSE RowsWhere(Tail(df), column, value)

\* quick_wins.head(limit)
QuickWinLimit == 5
HeadRows(df, limit) == IF Len(df) <= limit THEN df ELSE SubSeq(df, 1, limit)

\* get_portfolio_composition(...)['initiative_pct'] of the Major Projects group: the
\* group exists only when it has a row
MajorProjectsHeavy(initiatives_df) ==
    LET df == add_quadrant_classification(initiatives_df)
        major == CountWhere(df, "quadrant", "Major Projects")
    IN  major > 0 /\ RatLT(Rat(40, 1), Rat(major * 100, Len(df)))

\* lines 404-409
LimitedRevenueFocus(initiatives_df) ==
    LET total == Len(initiatives_df)
        revenue_growth_pct ==
            IF total > 0
            THEN Rat(CountWhere(initiatives_df, "strategic_category", "Revenue Growth") * 100, total)
            ELSE Rat(0, 1)
    IN  RatLT(revenue_growth_pct, Rat(20, 1))

\* lines 392-393
Overcommitted(capacity_sim) == RatLT(Rat(110, 1), capacity_sim.capacity_utilization)

\* the five checks in the order of the code, lines 353-416
PortfolioRecordsMutant(quick_wins, time_sinks, balance, overcommitted, alignment) ==
    Emit(time_sinks, [type |-> "Time Sinks", priority |-> "Medium"])
    \o Emit(quick_wins, [type |-> "Quick Wins", priority |-> "High"])
    \o Emit(balance, [type |-> "Portfolio Balance", priority |-> "Medium"])
    \o Emit(overcommitted, [type |-> "Capacity", priority |-> "High"])
    \o Emit(alignment, [type |-> "Strategic Alignment", priority |-> "Medium"])
PortfolioRecords(quick_wins, time_sinks, balance, overcommitted, alignment) ==
    Emit(quick_wins, [type |-> "Quick Wins", priority |-> "High"])
    \o Emit(time_sinks, [type |-> "Time Sinks", priority |-> "Medium"])
    \o Emit(balance, [type |-> "Portfolio Balance", priority |-> "Medium"])
    \o Emit(overcommitted, [type |-> "Capacity", priority |-> "High"])
    \o Emit(alignment, [type |-> "Strategic Alignment", priority |-> "Medium"])

\* the recommendations for one outcome of the two sorts (ties land in any order)
generate_portfolio_recommendations(initiatives_df, sprints_df, sorted_quick_wins, sorted_pending) ==
    LET quick_wins == HeadRows(sorted_quick_wins, QuickWinLimit)
        time_sinks == RowsWhere(add_quadrant_classification(initiatives_df),
                                "quadrant", "Time Sinks")
        available == AvailableCapacity(Column(sprints_df, "velocity"), 3)
        walk == Allocate(sorted_pending, 0, available, <<>>)
        capacity_sim == AllocationPlan(available, walk.capacity_used, walk.allocated)
    IN  PortfolioRecords(Len(RowsWhere(quick_wins, "status", "Backlog")) > 0,
                         Len(PendingRows(time_sinks)) > 0,
                         MajorProjectsHeavy(initiatives_df),
                         Overcommitted(capacity_sim),
                         LimitedRevenueFocus(initiatives_df))

RECURSIVE RatSum(_)
RatSum(values) == IF values = <<>> THEN Rat(0, 1) ELSE RatAdd(Head(values), RatSum(Tail(values)))

\* stories_df[stories_df['sprint_number'] >= current_sprint_num - 2]
RECURSIVE RecentStories(_, _)
RecentStories(stories_df, current_sprint_num) ==
    IF stories_df = <<>> THEN <<>>
    ELSE IF Head(stories_df).sprint_number >= current_sprint_num - 2
         THEN <<Head(stories_df)>> \o RecentStories(Tail(stories_df), current_sprint_num)
         ELSE RecentStories(Tail(stories_df), current_sprint_num)

\* recent_stories['estimation_accuracy'].mean() < 0.75: the mean of no story is NaN,
\* which is below nothing
LowAccuracy(recent_stories) ==
    /\ recent_stories # <<>>
    /\ RatLT(RatMul(RatSum(Column(recent_stories, "estimation_accuracy")),
                    Rat(1, Len(recent_stories))), Rat(75, 100))

\* recent_stories['cycle_time_days'].mean() > 7
SlowCycle(recent_stories) ==
    /\ recent_stories # <<>>
    /\ SumSeq(Column(recent_stories, "cycle_time_days")) > 7 * Len(recent_stories)

\* lines 400-412: the members of the merged frame whose utilization is above 1.05
Overutilized(stories_df, team_df, sprints_df) ==
    LET num_sprints == Cardinality({sprints_df[i].sprint_number : i \in 1..Len(sprints_df)})
        points(m) == SumSeq(Column(RowsWhere(stories_df, "assignee_id", m), "final_story_points"))
    IN  {i \in 1..Len(team_df) :
            /\ \E j \in 1..Len(stories_df) : stories_df[j].assignee_id = team_df[i].member_id
            /\ RatLT(Rat(105, 100),
                     Rat(points(team_df[i].member_id),
                         num_sprints * team_df[i].avg_capacity_per_sprint))}

\* assess_all_initiatives_risk: the outcomes of the call, one per order of the ties
AssessOutcomes(initiatives_df, current_sprint, sprints_df, team_utilization) ==
    LET risk_assessments == RiskAssessments(PendingRows(initiatives_df), current_sprint,
                                            sprints_df, team_utilization)
    IN  IF risk_assessments = <<>>
        THEN {[raised |-> "KeyError"]}
        ELSE {[raised |-> "none", risk_df |-> risk_df] : risk_df \in SortedByRisk(risk_assessments)}

\* the six checks in the order of the code, lines 346-442
PredictiveRecords(unhealthy, inaccurate, slow, overutilized, high_risk) ==
    Emit(unhealthy, [category |-> "Sprint Health", priority |-> "High"])
    \o Emit(inaccurate, [category |-> "Estimation", priority |-> "Medium"])
    \o Emit(slow, [category |-> "Cycle Time", priority |-> "Medium"])
    \o <<[category |-> "Capacity Planning", priority |-> "High"]>>
    \o Emit(overutilized, [category |-> "Team Capacity", priority |-> "High"])
    \o Emit(high_risk, [category |-> "Initiative Risk", priority |-> "High"])

\* team_utilization of the current sprint, in hundredths
CurrentUtilization(current_sprint) ==
    (current_sprint.completed_points * 100) \div current_sprint.team_capacity

\* the result for one outcome of the risk assessment: its exception propagates
generate_predictive_recommendations(sprints_df, stories_df, initiatives_df, team_df, assessed) ==
    LET current_sprint == sprints_df[Len(sprints_df)]
        recent_stories == RecentStories(stories_df, current_sprint.sprint_number)
        health == calculate_sprint_health_score(current_sprint, sprints_df)
    IN  IF assessed.raised # "none"
        THEN [raised |-> assessed.raised]
        ELSE [raised |-> "none",
              recommendations |->
                 PredictiveRecords(RatLT(health.health_score, Rat(70, 1)),
                                   LowAccuracy(recent_stories),
                                   SlowCycle(recent_stories),
                                   Overutilized(stories_df, team_df, sprints_df) # {},
                                   Len(RowsWhere(assessed.risk_df, "risk_level", "High")) > 0)]

\* the inputs of the model: initiatives of three quadrants, sprint histories with a
\* whole mean and deviation, stories of the first sprint, and a team of one or two
RecFields ==
    {[status |-> "Backlog", impact_score |-> 9, effort_score |-> 3,
      strategic_category |-> "Cost Reduction", completed_story_points |-> 10],
     [status |-> "Active", impact_score |-> 9, effort_score |-> 8,
      strategic_category |-> "Cost Reduction", completed_story_points |-> 10],
     [status |-> "Backlog", impact_score |-> 3, effort_score |-> 8,
      strategic_category |-> "Cost Reduction", completed_story_points |-> 10],
     [status |-> "Completed", impact_score |-> 9, effort_score |-> 3,
      strategic_category |-> "Revenue Growth", completed_story_points |-> 50]}
RecRow(i, fields) ==
    [initiative_id |-> i,
     name |-> "initiative",
     status |-> fields.status,
     impact_score |-> fields.impact_score,
     effort_score |-> fields.effort_score,
     strategic_category |-> fields.strategic_category,
     roi_estimate |-> "Medium",
     total_story_points |-> 50,
     completed_story_points |-> fields.completed_story_points,
     target_sprint |-> 5]
RecPortfolios ==
    {[i \in DOMAIN p |-> RecRow(i, p[i])] :
        p \in UNION {[1..n -> RecFields] : n \in 1..MaxInits}}
RecHistories == {<<30>>, <<0, 40>>, <<30, 30, 30, 30>>}
RecSprints(velocities) ==
    [i \in 1..Len(velocities) |->
        [sprint_number |-> i, velocity |-> velocities[i], completed_points |-> velocities[i],
         team_capacity |-> 50, completion_rate |-> Rat(velocities[i], 50), stories_count |-> 4]]
RecStories ==
    LET hard == [story_id |-> "STORY-0001", sprint_number |-> 1, assignee_id |-> 1,
                 estimation_accuracy |-> Rat(1, 2), cycle_time_days |-> 9,
                 final_story_points |-> 60]
        easy == [story_id |-> "STORY-0002", sprint_number |-> 1, assignee_id |-> 2,
                 estimation_accuracy |-> Rat(9, 10), cycle_time_days |-> 3,
                 final_story_points |-> 5]
    IN  {<<>>, <<hard>>, <<easy>>, <<hard, easy>>}
RecTeams ==
    LET ana == [member_id |-> 1, name |-> "Ana", avg_capacity_per_sprint |-> 20]
        ben == [member_id |-> 2, name |-> "Ben", avg_capacity_per_sprint |-> 20]
    IN  {<<ana, ben>>, <<ben>>}

RecsInit ==
    /\ \E initiatives_df \in RecPortfolios, velocities \in RecHistories,
          stories_df \in RecStories, team_df \in RecTeams :
          /\ heap = [initiatives_df |-> initiatives_df, sprints_df |-> RecSprints(velocities),
                     stories_df |-> stories_df, team_df |-> team_df, df |-> <<>>]
          /\ given = [initiatives_df |-> initiatives_df, sprints_df |-> RecSprints(velocities),
                      stories_df |-> stories_df, team_df |-> team_df]
    /\ engine_call = "none"
    /\ engine_out = <<>>

CallPortfolioRecommendations ==
    /\ engine_call = "none"
    /\ LET scored == add_quadrant_classification(add_priority_scores(heap["initiatives_df"]))
       IN  \E sorted_quick_wins \in SortedByPriority(RowsWhere(scored, "quadrant", "Quick Wins")),
              sorted_pending \in SortedByPriority(FilterPending(heap["initiatives_df"])) :
                /\ engine_out' = generate_portfolio_recommendations(heap["initiatives_df"],
                                     heap["sprints_df"], sorted_quick_wins, sorted_pending)
                /\ heap' = SetFrame(heap, CopyOf("initiatives_df", "df"), sorted_pending)
    /\ engine_call' = "generate_portfolio_recommendations"
    /\ UNCHANGED <<given, allocVars, riskVars, mcVars, scoreVars, forecastVars, healthVars>>

CallPredictiveRecommendations ==
    /\ engine_call = "none"
    /\ LET sprints_df == heap["sprints_df"]
           current_sprint == sprints_df[Len(sprints_df)]
       IN  \E assessed \in AssessOutcomes(heap["initiatives_df"], current_sprint.sprint_number,
                                          sprints_df, CurrentUtilization(current_sprint)) :
              engine_out' = generate_predictive_recommendations(sprints_df, heap["stories_df"],
                                heap["initiatives_df"], heap["team_df"], assessed)
    /\ heap' = SetFrame(heap, CopyOf("initiatives_df", "df"), PendingRows(heap["initiatives_df"]))
    /\ engine_call' = "generate_predictive_recommendations"
    /\ UNCHANGED <<given, allocVars, riskVars, mcVars, scoreVars, forecastVars, healthVars>>

----------------------------------------------------------------------------
(* Specifications: one per component, the other components at rest *)

AllocInit ==
    /\ pc = "idle"
    /\ pending_initiatives = <<>>
    /\ idx = 1
    /\ available_capacity = 0
    /\ capacity_used = 0
    /\ allocated = <<>>
    /\ first_unfit = 0
    /\ plan = NoPlan

RiskIdle ==
    /\ risk_in = [called |-> FALSE]
    /\ risk_out = [risk_level |-> "not called"]

McIdle ==
    /\ np_random = 0
    /\ np_seed = -1
    /\ private_source = [t \in Threads |-> 0]
    /\ mc_calls = [t \in Threads |-> NoCall]

ScoreIdle ==
    /\ score_in = [called |-> FALSE]
    /\ score_out = [called |-> FALSE]

ForecastIdle ==
    /\ forecast_in = [called |-> FALSE]
    /\ forecast_out = [called |-> FALSE]

HealthIdle ==
    /\ health_in = [called |-> FALSE]
    /\ health_out = [called |-> FALSE]

EngineIdle ==
    /\ heap = <<>>
    /\ given = <<>>
    /\ engine_call = "none"
    /\ engine_out = <<>>

RestIdle == ScoreIdle /\ ForecastIdle /\ HealthIdle /\ EngineIdle

Init == AllocInit /\ RiskIdle /\ McIdle /\ RestIdle

\* the generator of a fresh process is seeded from the operating system
McInit ==
    /\ np_random \in GeneratorStates
    /\ np_seed = -1
    /\ private_source = [t \in Threads |-> np_random]
    /\ mc_calls = [t \in Threads |-> NoCall]

InitMc == AllocInit /\ RiskIdle /\ McInit /\ RestIdle

NextAlloc == AllocStartAny \/ AllocStep \/ AllocReturn

SpecAlloc == Init /\ [][NextAlloc]_vars

NextRisk == ScoreAnyInitiative

SpecRisk == Init /\ [][NextRisk]_vars

NextMc == SeedAny \/ PredictAny

SpecMc == InitMc /\ [][NextMc]_vars

NextScore == ScoreAnyRow \/ AddPriorityScoresAny

SpecScore == Init /\ [][NextScore]_vars

NextGuards == GuardedRiskScore \/ GuardedPriorityScore

SpecGuards == Init /\ [][NextGuards]_vars

NextForecast == ForecastAny

InitEngine ==
    AllocInit /\ RiskIdle /\ McIdle /\ ScoreIdle /\ ForecastIdle /\ HealthIdle /\ EngineInit

NextEngine ==
    \/ CallAddPriorityScores
    \/ CallAddQuadrantClassification
    \/ CallPortfolioHealth
    \/ CallSimulateAny
    \/ CallAssessAny

SpecEngine == InitEngine /\ [][NextEngine]_vars

InitRecs ==
    AllocInit /\ RiskIdle /\ McIdle /\ ScoreIdle /\ ForecastIdle /\ HealthIdle /\ RecsInit

NextRecs ==
    \/ CallPortfolioRecommendations
    \/ CallPredictiveRecommendations
    \/ CallSimulateAny
    \/ CallAssessAny

SpecRecs == InitRecs /\ [][NextRecs]_vars

NextHealth == PortfolioHealthAny \/ SprintHealthAny

SpecHealth == Init /\ [][NextHealth]_vars

SpecForecast == Init /\ [][NextForecast]_vars

----------------------------------------------------------------------------
(* Properties of simulate_capacity_allocation *)

RECURSIVE SumPoints(_)
SumPoints(entries) ==
    IF entries = <<>> THEN 0 ELSE Head(entries).points_allocated + SumPoints(Tail(entries))

\* rank of an initiative in the priority order the loop walks
RankOf(id) == CHOOSE i \in 1..Len(pending_initiatives) : pending_initiatives[i].initiative_id = id

\* C1: the points handed out never exceed the budget: during the walk and in the
\* returned plan, the sum of points_allocated over the allocated initiatives and
\* capacity_used are both at most available_capacity.
C1_NeverOverBudget ==
    /\ capacity_used <= available_capacity
    /\ SumPoints(allocated) <= available_capacity
    /\ plan.capacity_used <= plan.available_capacity
    /\ SumPoints(plan.allocated_initiatives) <= plan.available_capacity

\* a returned plan that used the whole of a positive budget, its last initiative cut
C1_Witness ==
    /\ pc = "done"
    /\ Len(plan.allocated_initiatives) >= 2
    /\ ~plan.allocated_initiatives[Len(plan.allocated_initiatives)].fits_in_capacity
    /\ plan.capacity_used = plan.available_capacity
    /\ plan.available_capacity > 0

\* C2: while the loop walks the initiatives in priority order, capacity_used never
\* decreases from one processed initiative to the next.
C2_CapacityUsedMonotone == [][pc = "loop" => capacity_used' >= capacity_used]_vars

\* C3: once an initiative did not fit, it is the last one of the plan: no initiative
\* ranked after the first non-fitting one is ever allocated, and the non-fitting one,
\* when it is allocated, receives exactly the budget that was left.
C3_FirstFitByPriority ==
    first_unfit # 0 =>
        \A k \in 1..Len(allocated) :
            LET r == RankOf(allocated[k].initiative_id)
            IN  /\ r <= first_unfit
                /\ r = first_unfit =>
                      /\ ~allocated[k].fits_in_capacity
                      /\ allocated[k].points_allocated =
                            available_capacity - SumPoints(SubSeq(allocated, 1, k - 1))

----------------------------------------------------------------------------
(* Properties of calculate_initiative_risk_score *)

RiskStatus == Get(risk_in.initiative, "status", "Backlog")

InUnit(r) == RatLE(Rat(0, 1), r) /\ RatLE(r, Rat(1, 1))

\* the initiative of the scenario: impact 9, effort 3, Active, 50 points of which 10
\* are done, target sprint 5; scored at sprint 4, velocity 40 +- 4, utilization 0.9
IsScenario ==
    /\ risk_in.called
    /\ risk_in.initiative = RiskInitiative("Active", 50, 10, 5)
    /\ risk_in.current_sprint = 4
    /\ risk_in.avg_velocity = 40
    /\ risk_in.velocity_std = 4
    /\ risk_in.team_utilization = 90

\* C4 as stated: the scenario yields a small capacity_risk and a risk level of Low
\* or Medium, never High.
C4_ScenarioLowOrMedium ==
    IsScenario =>
        /\ risk_out.risk_level \in {"Low", "Medium"}
        /\ RatLT(risk_out.factors.capacity_risk, Rat(1, 2))

\* C4 amended: in the scenario one sprint of 40 points is left for 40 remaining points,
\* so capacity_risk is saturated at 1, risk_score is 103/150 and the level is High.
C4_ScenarioIsHigh ==
    IsScenario =>
        /\ risk_out.factors.capacity_risk = Rat(1, 1)
        /\ risk_out.risk_score = Rat(103, 150)
        /\ risk_out.risk_level = "High"
        /\ risk_out.sprints_available = 1

C4_Witness == IsScenario /\ risk_out.remaining_points = 40 /\ risk_out.capacity_available = 40

\* C5: a Completed or Deprioritized initiative gets risk_score 0, level "None", no
\* sub-factors and the recommendation "No action needed", whatever the other inputs.
C5_TerminalShortCircuit ==
    (risk_in.called /\ RiskStatus \in {"Completed", "Deprioritized"}) =>
        /\ risk_out.risk_level = "None"
        /\ risk_out.risk_score = Rat(0, 1)
        /\ DOMAIN risk_out.factors = {}
        /\ risk_out.recommendation = "No action needed"
        /\ DOMAIN risk_out = {"risk_score", "risk_level", "factors", "recommendation"}

\* a Deprioritized initiative with work left, no velocity and an overloaded team
C5_Witness ==
    /\ risk_in.called
    /\ RiskStatus = "Deprioritized"
    /\ risk_in.initiative = RiskInitiative("Deprioritized", 50, 0, 2)
    /\ risk_in.avg_velocity = 0
    /\ risk_in.team_utilization = 120
    /\ risk_out.risk_level = "None"

\* C6: for a non-terminal initiative each of the four sub-factors, and the composite
\* risk_score, lies in [0,1].
C6_RiskWithinUnit ==
    (risk_in.called /\ RiskStatus \notin {"Completed", "Deprioritized"}) =>
        /\ InUnit(risk_out.factors.capacity_risk)
        /\ InUnit(risk_out.factors.volatility_risk)
        /\ InUnit(risk_out.factors.utilization_risk)
        /\ InUnit(risk_out.factors.progress_risk)
        /\ InUnit(risk_out.risk_score)

\* remaining work of 50 points against a capacity of 10: the ratio is clamped
C6_Witness ==
    /\ risk_in.called
    /\ RiskStatus = "Active"
    /\ risk_out.remaining_points = 50
    /\ risk_out.capacity_available = 10
    /\ risk_out.factors.capacity_risk = Rat(1, 1)
    /\ risk_in.velocity_std = 10
    /\ risk_out.factors.volatility_risk = Rat(1, 1)

----------------------------------------------------------------------------
(* Properties of predict_sprint_completion_probability *)

Made == {t \in Threads : mc_calls[t].made}

NonNegative(sample) == \A i \in 1..Len(sample) : RatLE(Rat(0, 1), sample[i])

\* C7 as stated: the returned sample has length n_simulations and no negative value,
\* for every history, those with fewer than 2 samples included.
C7_SampleAlwaysFull ==
    \A t \in Made :
        /\ Len(mc_calls[t].result.simulated_velocities) = mc_calls[t].n_simulations
        /\ NonNegative(mc_calls[t].result.simulated_velocities)

\* C7 amended: with 2 or more historical samples the returned sample has length
\* n_simulations, with fewer it is empty; no value of it is ever negative.
C7_SampleFullOrEmpty ==
    \A t \in Made :
        LET sample == mc_calls[t].result.simulated_velocities
        IN  /\ Len(mc_calls[t].historical_velocities) >= 2 =>
                  Len(sample) = mc_calls[t].n_simulations
            /\ Len(mc_calls[t].historical_velocities) < 2 => sample = <<>>
            /\ NonNegative(sample)

\* a call whose first draw fell below zero and came back clipped to 0, in a sample of
\* MaxSims values
C7_Witness ==
    \E t \in Made :
        /\ mc_calls[t].historical_velocities = <<0, 10>>
        /\ mc_calls[t].n_simulations = MaxSims
        /\ Len(mc_calls[t].result.simulated_velocities) = MaxSims
        /\ StdNormal(NextState(mc_calls[t].state)) = -2
        /\ mc_calls[t].result.simulated_velocities[1] = Rat(0, 1)

\* C8: for the same history, n_simulations and random draws, a larger commitment never
\* has a larger probability of completion.
C8_ProbabilityMonotone ==
    \A t, u \in Made :
        (/\ mc_calls[t].historical_velocities = mc_calls[u].historical_velocities
         /\ mc_calls[t].n_simulations = mc_calls[u].n_simulations
         /\ mc_calls[t].state = mc_calls[u].state
         /\ mc_calls[t].committed_points <= mc_calls[u].committed_points)
        => RatLE(mc_calls[u].result.probability, mc_calls[t].result.probability)

\* two calls on the same draws where the larger commitment is strictly less likely
C8_Witness ==
    \E t, u \in Made :
        /\ mc_calls[t].historical_velocities = <<0, 10>>
        /\ mc_calls[u].historical_velocities = <<0, 10>>
        /\ mc_calls[t].n_simulations = mc_calls[u].n_simulations
        /\ mc_calls[t].state = mc_calls[u].state
        /\ mc_calls[t].committed_points < mc_calls[u].committed_points
        /\ RatLT(mc_calls[u].result.probability, mc_calls[t].result.probability)

\* C9: two calls with the same seed, committed_points, history and n_simulations
\* return the same sample and the same probability, whatever was called in between.
C9_SameSeedSameSample ==
    \A t, u \in Made :
        (/\ mc_calls[t].seed # -1
         /\ mc_calls[t].seed = mc_calls[u].seed
         /\ mc_calls[t].committed_points = mc_calls[u].committed_points
         /\ mc_calls[t].historical_velocities = mc_calls[u].historical_velocities
         /\ mc_calls[t].n_simulations = mc_calls[u].n_simulations)
        => /\ mc_calls[t].result.simulated_velocities = mc_calls[u].result.simulated_velocities
           /\ mc_calls[t].result.probability = mc_calls[u].result.probability

\* C10: calls share no mutable state: what a call returns when other threads call
\* around it is what it returns with a random source no other thread draws from.
C10_CallsIndependent ==
    \A t \in Made : mc_calls[t].result = mc_calls[t].alone

\* C11: with fewer than 2 historical samples the call returns the neutral fallback:
\* probability 0.5, expected velocity and both confidence bounds equal to
\* committed_points, and an empty sample.
C11_NeutralFallback ==
    \A t \in Made :
        Len(mc_calls[t].historical_velocities) < 2 =>
            /\ mc_calls[t].result.simulated_velocities = <<>>
            /\ mc_calls[t].result.probability = Rat(1, 2)
            /\ mc_calls[t].result.expected_velocity = Rat(mc_calls[t].committed_points, 1)
            /\ mc_calls[t].result.confidence_interval_10 = Rat(mc_calls[t].committed_points, 1)
            /\ mc_calls[t].result.confidence_interval_90 = Rat(mc_calls[t].committed_points, 1)

\* a call with one historical sample and a call with none, both answered
C11_Witness ==
    \E t, u \in Made :
        /\ mc_calls[t].historical_velocities = <<10>>
        /\ mc_calls[u].historical_velocities = <<>>
        /\ mc_calls[t].result.probability = Rat(1, 2)
        /\ mc_calls[u].result.simulated_velocities = <<>>

----------------------------------------------------------------------------
(* Properties of forecast_velocity_next_n_sprints *)

ForecastGiven == Column(forecast_in.sprints_df, "velocity")

\* C12: with fewer than 3 history points the three returned sequences have length
\* n_sprints and every element is the mean of the history, 0.8 times it and 1.2 times
\* it, the mean being 40 for an empty history.
C12_FlatFallback ==
    (forecast_in.called /\ Len(ForecastGiven) < 3) =>
        LET mean == IF ForecastGiven = <<>> THEN <<40, 1>>
                    ELSE Rat(SumSeq(ForecastGiven), Len(ForecastGiven))
        IN  /\ Len(forecast_out.forecast) = forecast_in.n_sprints
            /\ Len(forecast_out.lower_bound) = forecast_in.n_sprints
            /\ Len(forecast_out.upper_bound) = forecast_in.n_sprints
            /\ \A i \in 1..forecast_in.n_sprints :
                  /\ forecast_out.forecast[i] = mean
                  /\ RatMul(forecast_out.lower_bound[i], <<10, 1>>) = RatMul(mean, <<8, 1>>)
                  /\ RatMul(forecast_out.upper_bound[i], <<10, 1>>) = RatMul(mean, <<12, 1>>)

\* an empty history forecast over MaxFuture sprints: 40, 32 and 48 throughout
C12_Witness ==
    /\ forecast_in.called
    /\ ForecastGiven = <<>>
    /\ forecast_in.n_sprints = MaxFuture
    /\ forecast_out.forecast[MaxFuture] = <<40, 1>>
    /\ forecast_out.lower_bound[MaxFuture] = <<32, 1>>
    /\ forecast_out.upper_bound[MaxFuture] = <<48, 1>>

\* C13: with 3 or more history points the three returned sequences have length
\* n_sprints, every forecast is within [20,60], every lower bound is at least 15 and
\* every upper bound at most 70.
C13_ForecastClamped ==
    (forecast_in.called /\ Len(ForecastGiven) >= 3) =>
        /\ Len(forecast_out.forecast) = forecast_in.n_sprints
        /\ Len(forecast_out.lower_bound) = forecast_in.n_sprints
        /\ Len(forecast_out.upper_bound) = forecast_in.n_sprints
        /\ \A i \in 1..forecast_in.n_sprints :
              /\ RatLE(<<20, 1>>, forecast_out.forecast[i])
              /\ RatLE(forecast_out.forecast[i], <<60, 1>>)
              /\ RatLE(<<15, 1>>, forecast_out.lower_bound[i])
              /\ RatLE(forecast_out.upper_bound[i], <<70, 1>>)

\* a steep rising trend (slope 35) whose blended forecast of 92 is cut to 60, with
\* the upper bound cut to 70
C13_Witness ==
    /\ forecast_in.called
    /\ ForecastGiven = <<10, 40, 80>>
    /\ forecast_in.n_sprints = MaxFuture
    /\ forecast_out.trend_slope = <<35, 1>>
    /\ forecast_out.forecast[1] = <<60, 1>>
    /\ forecast_out.upper_bound[1] = <<70, 1>>

----------------------------------------------------------------------------
(* Properties of the priority score, the tiers and the quadrants *)

RowScored == score_in.called /\ score_in.call = "apply"
FrameScored == score_in.called /\ score_in.call = "add_priority_scores"
Quadrants == {"Quick Wins", "Major Projects", "Fill-ins", "Time Sinks"}

\* C14: every (impact, effort) pair in [1,10] x [1,10] gets one of the four quadrant
\* labels; the label is a high-impact one exactly when impact > 6 and a high-effort one
\* exactly when effort > 5, so impact 6 and effort 5 are on the low side.
C14_QuadrantTotalAndExact ==
    (/\ RowScored
     /\ score_in.initiative["impact_score"] \in 1..10
     /\ score_in.initiative["effort_score"] \in 1..10) =>
        /\ score_out.quadrant \in Quadrants
        /\ score_in.initiative["impact_score"] > 6
              <=> score_out.quadrant \in {"Quick Wins", "Major Projects"}
        /\ score_in.initiative["effort_score"] > 5
              <=> score_out.quadrant \in {"Major Projects", "Time Sinks"}

\* the corner where both scores sit on their boundary
C14_Witness ==
    /\ RowScored
    /\ score_in.initiative["impact_score"] = 6
    /\ score_in.initiative["effort_score"] = 5
    /\ score_out.quadrant = "Fill-ins"

\* the weight the tables give a label, 1.0 (ten tenths) for a label in neither table
\* and for an absent column
WeightOf(table, row, column) ==
    IF column \in DOMAIN row /\ row[column] \in DOMAIN table THEN table[row[column]] ELSE 10

\* C15 as stated: priority_score is 0 if and only if effort_score is 0.
C15_ZeroIffNoEffort ==
    RowScored =>
        (score_out.priority_score[1] = 0 <=> score_in.initiative["effort_score"] = 0)

\* C15: for impact_score > 0, priority_score is 0 if and only if effort_score is 0;
\* for effort_score # 0 and impact_score > 0 it is strictly positive and equals
\* (impact / effort) * strategic weight * roi multiplier, the weight being 1.0 for a
\* label in neither table.
C15_ZeroIffNoEffortForPositiveImpact ==
    (RowScored /\ score_in.initiative["impact_score"] > 0) =>
        LET row == score_in.initiative
            weight == WeightOf(STRATEGIC_WEIGHTS, row, "strategic_category")
            multiplier == WeightOf(ROI_MULTIPLIERS, row, "roi_estimate")
        IN  /\ score_out.priority_score[1] = 0 <=> row["effort_score"] = 0
            /\ row["effort_score"] # 0 =>
                  /\ score_out.priority_score[1] > 0 /\ score_out.priority_score[2] > 0
                  /\ score_out.priority_score[1] * row["effort_score"] * 100
                        = score_out.priority_score[2] * row["impact_score"] * weight * multiplier

\* a category in no table with a High ROI: 9/3 * 1.0 * 1.3 = 3.9
C15_Witness ==
    /\ RowScored
    /\ score_in.initiative = [impact_score |-> 9, effort_score |-> 3,
                              strategic_category |-> "Sustainability", roi_estimate |-> "High"]
    /\ score_out.priority_score = <<39, 10>>

\* C16: every row returned by add_priority_scores, a row of score 0 included, has a
\* priority_tier in {Low, Medium, High}: Low up to 1.5, Medium up to 2.5, High above.
C16_EveryRowHasTier ==
    FrameScored =>
        \A i \in 1..Len(score_out) :
            /\ score_out[i].priority_tier \in {"Low", "Medium", "High"}
            /\ score_out[i].priority_tier = "Low" <=> RatLE(score_out[i].priority_score, <<3, 2>>)
            /\ score_out[i].priority_tier = "High" <=> RatLT(<<5, 2>>, score_out[i].priority_score)

----------------------------------------------------------------------------
(* Properties of the two health scores *)

PortfolioScored == health_in.called /\ health_in.call = "portfolio"
SprintScored == health_in.called /\ health_in.call = "sprint"

\* the share of the rows of a portfolio that satisfy a test, as a rational
Share(df, Test(_)) == <<Cardinality({i \in 1..Len(df) : Test(df[i])}), Len(df)>>

\* C17: for a non-empty portfolio the health score is 100 * [0.30 * quick-wins ratio +
\* 0.20 * (1 - time-sinks ratio) + 0.30 * completion rate + 0.20 * (1 - deprioritized
\* ratio)], every ratio over the number of initiatives, and lies in [0,100].
C17_PortfolioHealthWithin100 ==
    (PortfolioScored /\ Len(health_in.initiatives_df) > 0) =>
        LET df == health_in.initiatives_df
            n == Len(df)
            IsQuickWin(row) == row.impact_score > 6 /\ row.effort_score <= 5
            IsTimeSink(row) == row.impact_score <= 6 /\ row.effort_score > 5
            IsCompleted(row) == row.status = "Completed"
            IsDeprioritized(row) == row.status = "Deprioritized"
            \* n * the bracket, in hundredths
            bracket == 30 * Share(df, IsQuickWin)[1] + 20 * (n - Share(df, IsTimeSink)[1])
                         + 30 * Share(df, IsCompleted)[1]
                         + 20 * (n - Share(df, IsDeprioritized)[1])
        IN  /\ health_out.health_score[1] * n = bracket * health_out.health_score[2]
            /\ RatLE(<<0, 1>>, health_out.health_score)
            /\ RatLE(health_out.health_score, <<100, 1>>)

\* C18: the sprint health score is within [0,100] for every sprint record and history,
\* records whose estimation accuracy or blocker ratio exceeds 1 included.
C18_SprintHealthWithin100 ==
    SprintScored =>
        /\ RatLE(<<0, 1>>, health_out.health_score)
        /\ RatLE(health_out.health_score, <<100, 1>>)

----------------------------------------------------------------------------
(* Properties of the engine on the caller's DataFrames *)

Assessed == engine_call = "assess_all_initiatives_risk"

\* the position in the caller's frame of the initiative with the given id
PositionOf(id) == CHOOSE i \in 1..Len(given.initiatives_df) : given.initiatives_df[i].initiative_id = id

\* C19: assess_all_initiatives_risk returns exactly the initiatives whose status is
\* Active or Backlog, in non-increasing order of risk_score, initiatives of equal
\* risk_score in the order they have in the input.
C19_PendingSortedStable ==
    Assessed =>
        /\ engine_out.raised = "none"
        /\ LET risk_df == engine_out.risk_df
               pending == {i \in 1..Len(given.initiatives_df) :
                              given.initiatives_df[i].status \in {"Active", "Backlog"}}
           IN  /\ Len(risk_df) = Cardinality(pending)
               /\ {risk_df[i].initiative_id : i \in 1..Len(risk_df)}
                     = {given.initiatives_df[i].initiative_id : i \in pending}
               /\ \A i, j \in 1..Len(risk_df) :
                     i < j =>
                        /\ RatLE(risk_df[j].risk_score, risk_df[i].risk_score)
                        /\ risk_df[i].risk_score = risk_df[j].risk_score
                              => PositionOf(risk_df[i].initiative_id)
                                    < PositionOf(risk_df[j].initiative_id)

\* C20: after any of the five engine calls has returned, the caller's initiatives and
\* sprints have the rows, columns and values they had before the call.
C20_InputsUnchanged ==
    engine_call # "none" =>
        /\ heap["initiatives_df"] = given.initiatives_df
        /\ heap["sprints_df"] = given.sprints_df

\* a full portfolio scored: the returned rows carry priority_score, the caller's do not
C20_Witness ==
    /\ engine_call = "add_priority_scores"
    /\ Len(given.initiatives_df) = MaxInits
    /\ Len(engine_out) = MaxInits
    /\ "priority_score" \in DOMAIN engine_out[1]
    /\ "priority_score" \notin DOMAIN heap["initiatives_df"][1]
    /\ heap["df"] = engine_out

----------------------------------------------------------------------------
(* Further properties of calculate_initiative_risk_score *)

NonTerminal == risk_in.called /\ RiskStatus \notin {"Completed", "Deprioritized"}
MissingFields == RiskFields \ DOMAIN risk_in.initiative
CapacityText == "High risk - consider descoping, extending timeline, or adding resources"

\* C21: an initiative record without one of total_story_points, completed_story_points,
\* target_sprint or status makes the call fail; no normal risk assessment is returned
\* for it.
C21_MissingFieldFails ==
    (risk_in.called /\ MissingFields # {}) => "risk_score" \notin DOMAIN risk_out

\* C22: no zero denominator faults, each gives its default: avg_velocity = 0 gives
\* volatility_risk 0.5, capacity_available = 0 gives capacity_risk 1,
\* total_story_points = 0 gives progress_risk 0.5 and effort_score = 0 gives
\* priority_score 0.
C22_ZeroDenominatorDefaults ==
    /\ NonTerminal =>
          /\ risk_in.avg_velocity = 0 => risk_out.factors.volatility_risk = <<1, 2>>
          /\ risk_out.capacity_available = 0 => risk_out.factors.capacity_risk = <<1, 1>>
          /\ Get(risk_in.initiative, "total_story_points", 0) = 0
                => risk_out.factors.progress_risk = <<1, 2>>
    /\ (RowScored /\ score_in.initiative["effort_score"] = 0)
          => score_out.priority_score = <<0, 1>>

\* no velocity, hence no capacity, and an initiative of no points
C22_Witness ==
    /\ NonTerminal
    /\ risk_in.avg_velocity = 0
    /\ risk_in.velocity_std = 10
    /\ risk_out.capacity_available = 0
    /\ risk_in.initiative = RiskInitiative("Active", 0, 0, 5)
    /\ risk_out.factors = [capacity_risk |-> <<1, 1>>, volatility_risk |-> <<1, 2>>,
                           utilization_risk |-> UtilizationRisk(risk_in.team_utilization),
                           progress_risk |-> <<1, 2>>]

\* C24: for a non-terminal initiative the level is Low below 0.3, Medium from 0.3 and
\* below 0.6, High from 0.6 on, and the capacity-specific recommendation is returned
\* exactly when the level is High and capacity_risk is above 0.7.
C24_LevelFromScoreAlone ==
    NonTerminal =>
        /\ risk_out.risk_level = "Low" <=> 10 * risk_out.risk_score[1] < 3 * risk_out.risk_score[2]
        /\ risk_out.risk_level = "High" <=> 10 * risk_out.risk_score[1] >= 6 * risk_out.risk_score[2]
        /\ risk_out.risk_level \in {"Low", "Medium", "High"}
        /\ risk_out.recommendation = CapacityText
              <=> /\ risk_out.risk_level = "High"
                  /\ 10 * risk_out.factors.capacity_risk[1] > 7 * risk_out.factors.capacity_risk[2]

\* a High level that capacity does not explain: the general High text is returned
C24_Witness ==
    /\ NonTerminal
    /\ risk_out.risk_level = "High"
    /\ RatLE(risk_out.factors.capacity_risk, <<7, 10>>)
    /\ risk_out.recommendation = "High risk - immediate intervention needed"

IsBacklog == risk_in.called /\ RiskStatus = "Backlog"

\* C25 as stated: a Backlog initiative gets progress_risk 0.1 whatever its
\* total_story_points (0 included) and completed_story_points.
C25_BacklogFlat ==
    IsBacklog => risk_out.factors.progress_risk = <<1, 10>>

\* C25: a Backlog initiative gets progress_risk 0.1 when its total_story_points is
\* positive, whatever its completed_story_points, and the 0.5 default when its
\* total_story_points is 0.
C25_BacklogFlatWithPoints ==
    IsBacklog =>
        IF Get(risk_in.initiative, "total_story_points", 0) > 0
        THEN risk_out.factors.progress_risk = <<1, 10>>
        ELSE risk_out.factors.progress_risk = <<1, 2>>

\* a Backlog initiative with nothing done and one sprint left: an Active one would
\* get 0.8
C25_Witness ==
    /\ IsBacklog
    /\ risk_in.initiative = RiskInitiative("Backlog", 50, 0, 2)
    /\ risk_in.current_sprint = 1
    /\ risk_out.sprints_available = 1
    /\ risk_out.factors.progress_risk = <<1, 10>>

\* C30: risk_score is 0 exactly for a terminal status; every Active or Backlog
\* initiative gets a strictly positive risk_score, utilization and progress factors
\* that are not 0, and never the level "None".
C30_ZeroIffTerminal ==
    risk_in.called =>
        /\ risk_out.risk_score[1] = 0 <=> RiskStatus \in {"Completed", "Deprioritized"}
        /\ RiskStatus \in {"Active", "Backlog"} =>
              /\ risk_out.risk_score[1] > 0 /\ risk_out.risk_score[2] > 0
              /\ risk_out.factors.utilization_risk[1] > 0
              /\ risk_out.factors.progress_risk[1] > 0
              /\ risk_out.risk_level # "None"

\* nothing left to do and a perfectly steady team: only utilization and progress count
C30_Witness ==
    /\ risk_in.called
    /\ RiskStatus = "Backlog"
    /\ risk_out.remaining_points = 0
    /\ risk_in.avg_velocity = 40
    /\ risk_in.velocity_std = 0
    /\ risk_out.factors.capacity_risk = <<0, 1>>
    /\ risk_out.factors.volatility_risk = <<0, 1>>
    /\ RatLT(<<0, 1>>, risk_out.risk_score)

----------------------------------------------------------------------------
(* Further properties of the forecast and of the allocation plan *)

\* C29: for a history of non-negative velocities, in the fallback and in the trend
\* branch alike, every forecast lies between its lower and its upper bound.
C29_ForecastWithinItsBand ==
    forecast_in.called =>
        \A i \in 1..forecast_in.n_sprints :
            /\ RatLE(forecast_out.lower_bound[i], forecast_out.forecast[i])
            /\ RatLE(forecast_out.forecast[i], forecast_out.upper_bound[i])

\* a steep falling trend: the forecast is held at 20, the lower bound at 15, and the
\* upper bound is above the forecast
C29_Witness ==
    /\ forecast_in.called
    /\ ForecastGiven = <<80, 40, 10>>
    /\ forecast_in.n_sprints = MaxFuture
    /\ forecast_out.forecast[MaxFuture] = <<20, 1>>
    /\ forecast_out.lower_bound[MaxFuture] = <<15, 1>>
    /\ RatLT(<<20, 1>>, forecast_out.upper_bound[MaxFuture])

Returned == pc = "done"
PlanEntries == plan.allocated_initiatives
Partial == {i \in 1..Len(PlanEntries) : ~PlanEntries[i].fits_in_capacity}

\* C27: in a returned plan at most one entry has fits_in_capacity = False; if there is
\* one it is the last entry and capacity_used equals available_capacity; the
\* points_allocated of the entries add up to capacity_used; and
\* initiatives_fully_allocated counts the entries with fits_in_capacity = True.
C27_PlanWellFormed ==
    Returned =>
        /\ Cardinality(Partial) <= 1
        /\ \A i \in Partial :
              /\ i = Len(PlanEntries)
              /\ plan.capacity_used = plan.available_capacity
        /\ SumSeq([i \in 1..Len(PlanEntries) |-> PlanEntries[i].points_allocated])
              = plan.capacity_used
        /\ plan.initiatives_fully_allocated = Len(PlanEntries) - Cardinality(Partial)

\* a plan of a full entry followed by a partial one
C27_Witness ==
    /\ Returned
    /\ Len(PlanEntries) = 2
    /\ PlanEntries[1].fits_in_capacity
    /\ ~PlanEntries[2].fits_in_capacity
    /\ PlanEntries[2].points_allocated > 0
    /\ plan.initiatives_fully_allocated = 1

Simulated == engine_call = "simulate_capacity_allocation"
PortfolioAdvised == engine_call = "generate_portfolio_recommendations"
PredictiveCalled == engine_call = "generate_predictive_recommendations"
PredictiveAdvised == PredictiveCalled /\ engine_out.raised = "none"
PortfolioTypes == [i \in 1..Len(engine_out) |-> engine_out[i].type]
PredictiveCategories ==
    [i \in 1..Len(engine_out.recommendations) |-> engine_out.recommendations[i].category]
Listed(names, name) == \E i \in 1..Len(names) : names[i] = name

\* C26: a returned simulation reports a capacity_utilization of at most 100, and of 0
\* when available_capacity is not positive; and the portfolio recommendations never
\* hold the 'Capacity' record, whose guard is capacity_utilization > 110.
C26_NeverOvercommitted ==
    /\ Simulated =>
          /\ RatLE(engine_out.capacity_utilization, Rat(100, 1))
          /\ engine_out.available_capacity <= 0 => engine_out.capacity_utilization = Rat(0, 1)
    /\ PortfolioAdvised => ~Listed(PortfolioTypes, "Capacity")

\* a simulation that used up its whole budget on a partial entry
C26_Witness ==
    /\ Simulated
    /\ engine_out.available_capacity > 0
    /\ engine_out.capacity_utilization = Rat(100, 1)
    /\ \E i \in 1..Len(engine_out.allocated_initiatives) :
          ~engine_out.allocated_initiatives[i].fits_in_capacity

PortfolioOrder ==
    <<"Quick Wins", "Time Sinks", "Portfolio Balance", "Capacity", "Strategic Alignment">>
PredictiveOrder ==
    <<"Sprint Health", "Estimation", "Cycle Time", "Capacity Planning", "Team Capacity",
      "Initiative Risk">>
Rank(order, name) == CHOOSE i \in 1..Len(order) : order[i] = name
SubsequenceOf(names, order) ==
    /\ \A i \in 1..Len(names) : Listed(order, names[i])
    /\ \A i, j \in 1..Len(names) : i < j => Rank(order, names[i]) < Rank(order, names[j])
GivenInitiatives == given.initiatives_df
GivenWhere(Test(_)) == {i \in 1..Len(GivenInitiatives) : Test(GivenInitiatives[i])}
IsTimeSink(row) ==
    row.impact_score <= 6 /\ row.effort_score > 5 /\ row.status \in {"Active", "Backlog"}
IsMajorProject(row) == row.impact_score > 6 /\ row.effort_score > 5
IsBacklogQuickWin(row) ==
    row.impact_score > 6 /\ row.effort_score <= 5 /\ row.status = "Backlog"
IsRevenueGrowth(row) == row.strategic_category = "Revenue Growth"
GivenRecent ==
    {i \in 1..Len(given.stories_df) :
        given.stories_df[i].sprint_number >= Len(given.sprints_df) - 2}

\* C23: the records of a generator come in the fixed order of its checks, each category
\* at most once, and a record is there exactly when its condition holds: a pending time
\* sink, more than 40% major projects, a Backlog quick win (of at most five quick wins),
\* less than 20% revenue growth; Capacity Planning always, Cycle Time exactly when the
\* recent stories take more than 7 days on average.
C23_FixedOrderOfChecks ==
    /\ PortfolioAdvised =>
          /\ SubsequenceOf(PortfolioTypes, PortfolioOrder)
          /\ Listed(PortfolioTypes, "Quick Wins") <=> GivenWhere(IsBacklogQuickWin) # {}
          /\ Listed(PortfolioTypes, "Time Sinks") <=> GivenWhere(IsTimeSink) # {}
          /\ Listed(PortfolioTypes, "Portfolio Balance")
                <=> Cardinality(GivenWhere(IsMajorProject)) * 100 > 40 * Len(GivenInitiatives)
          /\ Listed(PortfolioTypes, "Strategic Alignment")
                <=> Cardinality(GivenWhere(IsRevenueGrowth)) * 100 < 20 * Len(GivenInitiatives)
    /\ PredictiveAdvised =>
          /\ SubsequenceOf(PredictiveCategories, PredictiveOrder)
          /\ Listed(PredictiveCategories, "Capacity Planning")
          /\ Listed(PredictiveCategories, "Cycle Time")
                <=> /\ GivenRecent # {}
                    /\ SumSeq([i \in 1..Len(given.stories_df) |->
                                  IF i \in GivenRecent
                                  THEN given.stories_df[i].cycle_time_days ELSE 0])
                          > 7 * Cardinality(GivenRecent)

\* portfolio recommendations of three records, the first and the last of the order
C23_Witness ==
    /\ PortfolioAdvised
    /\ PortfolioTypes = <<"Quick Wins", "Time Sinks", "Strategic Alignment">>

NoPendingGiven == \A i \in 1..Len(GivenInitiatives) : ~IsPending(GivenInitiatives[i])

\* C28: for a portfolio with no Active or Backlog initiative assess_all_initiatives_risk
\* returns an empty result without raising, and generate_predictive_recommendations
\* completes without an Initiative Risk record.
C28_AssessmentTotal ==
    NoPendingGiven =>
        /\ engine_call = "assess_all_initiatives_risk" =>
              engine_out.raised = "none" /\ engine_out.risk_df = <<>>
        /\ PredictiveCalled =>
              engine_out.raised = "none" /\ ~Listed(PredictiveCategories, "Initiative Risk")

============================================================================
